---- MODULE Spec2Model ----
(***************************************************************************)
(* State-machine model of the tock-on-titan U2F token application:         *)
(*   - the FIPS fatal-error latch and init_fips (golf2/apps/u2f_app/fips.c)*)
(*   - the U2F HID transport (userspace/u2f_app/u2f_transport.c)           *)
(*   - the boot sequence and receive loop (userspace/u2f_app/main.c)       *)
(*                                                                         *)
(* Conventions                                                             *)
(*   - a uint32_t channel id is the pair <<high 16 bits, low 16 bits>>     *)
(*   - fips_fatal (a 32-bit mask) is the set of positions of its 1 bits    *)
(*   - a byte array is a sequence; C offset k is element k + 1             *)
(*   - rx_buffer and tx_buffer (MAX_BCNT = 57 + 39 * 59 bytes each) are    *)
(*     kept in frame-sized pieces: piece 1 is bytes 0..56, piece k + 2 is  *)
(*     the 59 bytes from offset 57 + k * 59                                *)
(*   - a U2FHID_FRAME is [cid, raw]: raw is the 60 bytes after the cid,    *)
(*     read through the init or the cont layout of the union               *)
(***************************************************************************)
EXTENDS Integers, Sequences, FiniteSets, TLC

(***************************************************************************)
(* Bounds of the model                                                     *)
(***************************************************************************)
\* channels 1..MaxChan are the non-reserved channel ids the host uses
MaxChan == 2
\* the driver may fail the k-th transmit of a handler call, k in 1..MaxTxFail
MaxTxFail == 2
\* number of broadcast channel allocations explored from one initial state
MaxAlloc == 2
\* counter increments after which no further U2F request is sent
MaxIncr == 2
\* words fed to the repetition-count test
MaxWords == 3

(***************************************************************************)
(* Program constants                                                       *)
(***************************************************************************)
U2F_REPORT_SIZE == 64
INIT_DATA_SIZE == U2F_REPORT_SIZE - 7
CONT_DATA_SIZE == U2F_REPORT_SIZE - 5
MAX_BCNT == 57 + 39 * 59
TYPE_MASK == 128
TYPE_INIT == 128
TYPE_CONT == 0
U2FHID_PING == 129
U2FHID_MSG == 131
U2FHID_LOCK == 132
U2FHID_SYSINFO == 133
U2FHID_INIT == 134
U2FHID_PROMPT == 135
U2FHID_WINK == 136
U2FHID_SYNC == 188
U2FHID_ERROR == 191
U2FHID_IF_VERSION == 2
INIT_NONCE_SIZE == 8
CAPFLAG_WINK == 1
CAPFLAG_LOCK == 2
ERR_INVALID_CMD == 1
ERR_INVALID_LEN == 3
ERR_INVALID_SEQ == 4
ERR_CHANNEL_BUSY == 6
ERR_INVALID_CID == 11
SYSINFO_SIZE == 43
SYSINFO_AID_OFFSET == 15
SW_OFFSET == 2
U2F_SW_CLA_NOT_SUPPORTED == 28160
U2F_SW_WRONG_LENGTH == 26368
U2F_SW_WTF == 28416
POP_TOUCH_NO == 0
POP_TOUCH_YES == 1
G2F_ATTEST == 128
G2F_TUP == 1
G2F_CONSUME == 2
G2F_CHECK == 4
AES_BLOCK_LEN == 16
KH_LEN == 64

\* uint32_t values as <<hi16, lo16>>
U32(hi, lo) == <<hi, lo>>
U32Zero == U32(0, 0)
CID_BROADCAST == U32(65535, 65535)
\* x + 1 modulo 2^32
U32Inc(x) ==
  IF x[2] = 65535 THEN U32((x[1] + 1) % 65536, 0) ELSE U32(x[1], x[2] + 1)
\* byte k (0 = least significant) of a uint32_t
U32Byte(x, k) ==
  CASE k = 0 -> x[2] % 256
    [] k = 1 -> x[2] \div 256
    [] k = 2 -> x[1] % 256
    [] k = 3 -> x[1] \div 256

\* fips_err.h: the enum values as sets of bit positions
FIPS_INITIALIZED == {31}
FIPS_UNINITIALIZED == {0}
FIPS_FATAL_TRNG == {1}
FIPS_FATAL_HMAC_SHA256 == {2}
FIPS_FATAL_HMAC_DRBG == {3}
FIPS_FATAL_ECDSA == {4}
FIPS_FATAL_TOO_MANY_KEYS == {5}
FIPS_FATAL_AES128 == {6}
FIPS_FATAL_CMAC_AES128 == {7}
FIPS_ERROR_MASK == 1..7

RECURSIVE Pow2(_)
Pow2(n) == IF n = 0 THEN 1 ELSE 2 * Pow2(n - 1)
RECURSIVE SumBits(_, _)
SumBits(bits, lo) ==
  IF bits = {} THEN 0
  ELSE LET b == CHOOSE x \in bits : TRUE
       IN Pow2(b - lo) + SumBits(bits \ {b}, lo)
\* (uint8_t)(mask >> shift) of a 32-bit mask given as a bit set
MaskByte(bits, shift) == SumBits({b \in bits : b >= shift /\ b < shift + 8}, shift)

\* n zero bytes
Zeros(n) == [i \in 1..n |-> 0]
\* the n bytes of the byte array a starting at C offset off
Bytes(a, off, n) == [i \in 1..n |-> a[off + i]]

(***************************************************************************)
(* Message buffers: uint8_t buf[MAX_BCNT] as up to 40 pieces.  A buffer is *)
(* the sequence of its pieces up to the last one that holds a nonzero      *)
(* byte; the pieces after it are all zero, as static storage starts.       *)
(***************************************************************************)
NumPieces == 40
PieceSize(k) == IF k = 1 THEN 57 ELSE 59
PieceOff(k) == IF k = 1 THEN 0 ELSE 57 + (k - 2) * 59
ZeroBuffer == <<>>
\* piece k of buf
Piece(buf, k) == IF k <= Len(buf) THEN buf[k] ELSE Zeros(PieceSize(k))
\* the piece holding C offset off
PieceOf(off) == IF off < 57 THEN 1 ELSE ((off - 57) \div 59) + 2
\* buf[off]
ByteAt(buf, off) ==
  IF off < 57 THEN Piece(buf, 1)[off + 1]
  ELSE Piece(buf, PieceOf(off))[((off - 57) % 59) + 1]
\* the buffer holding pieces p[1..hi] and zeros after them
MkBuffer(p, hi) ==
  LET nz == {k \in 1..hi : \E j \in 1..PieceSize(k) : p[k][j] # 0}
  IN [k \in 1..(IF nz = {} THEN 0 ELSE CHOOSE m \in nz : \A x \in nz : x <= m)
        |-> p[k]]
\* the last piece that can be nonzero after n bytes are copied to dst + off
TopPiece(dst, off, n) ==
  IF n > 0 /\ PieceOf(off + n - 1) > Len(dst) THEN PieceOf(off + n - 1)
  ELSE Len(dst)
\* memcpy(dst + off, src, n), src a byte array
MemCpy(dst, off, src, n) ==
  LET hi == TopPiece(dst, off, n)
      p == [k \in 1..hi |->
             IF PieceOff(k) + PieceSize(k) <= off \/ PieceOff(k) >= off + n
               THEN Piece(dst, k)
               ELSE [j \in 1..PieceSize(k) |->
                       LET o == PieceOff(k) + j - 1
                       IN IF o >= off /\ o < off + n THEN src[o - off + 1]
                          ELSE Piece(dst, k)[j]]]
  IN MkBuffer(p, hi)
\* memcpy(dst, src, n), src a message buffer
BufCpy(dst, src, n) ==
  LET hi == TopPiece(dst, 0, n)
      p == [k \in 1..hi |->
             IF PieceOff(k) + PieceSize(k) <= n THEN Piece(src, k)
             ELSE IF PieceOff(k) >= n THEN Piece(dst, k)
             ELSE [j \in 1..PieceSize(k) |->
                     IF PieceOff(k) + j - 1 < n THEN Piece(src, k)[j]
                     ELSE Piece(dst, k)[j]]]
  IN MkBuffer(p, hi)
\* the first n bytes of piece k, zero-padded to the piece size
PiecePrefix(buf, k, n) ==
  IF n >= PieceSize(k) THEN Piece(buf, k)
  ELSE [j \in 1..PieceSize(k) |-> IF j <= n THEN Piece(buf, k)[j] ELSE 0]

(***************************************************************************)
(* U2FHID_FRAME accessors (u2f_hid.h)                                      *)
(***************************************************************************)
FRAME_TYPE(f) == IF f.raw[1] >= 128 THEN TYPE_INIT ELSE TYPE_CONT
FRAME_CMD(f) == f.raw[1] % 128
MSG_LEN(f) == f.raw[2] * 256 + f.raw[3]
InitData(f) == Bytes(f.raw, 3, INIT_DATA_SIZE)
ContSeq(f) == f.raw[1]
ContData(f) == Bytes(f.raw, 1, CONT_DATA_SIZE)


(***************************************************************************)
(* State                                                                   *)
(***************************************************************************)
VARIABLES
  pc,                 \* position of main(): "init_fips", "setup", "receive",
                      \* "process" or "loop"
  kat,                \* init_fips: index of the next known-answer test
  fips_fatal,         \* fips.c: the fatal-error latch
  fips_fatal_lineno,  \* fips.c: line of the first throw_fips_err
  led,                \* led_on(0) was called
  next_CID,           \* u2f_transport.c statics
  lock_CID,
  timeout_CID,
  pending,
  rx_buffer,
  tx_buffer,
  U2F_sysinfo,
  allocs,             \* number of broadcast allocations made (model bound)
  counter,            \* fips_entropy.c: the monotonic counter
  incrs,              \* number of flash_ctr_incr calls made (model bound)
  touch_latch,        \* tock_shims.c: the latched user touch
  reported,           \* host: the counter of the last successful AUTHENTICATE
  frame,              \* the frame handed to the last u2fhid_process_frame
  sent,               \* frames handed to usbu2f_put_frame by that call
  dispatched,         \* the request u2fhid_response_msg was called with
  drbg,               \* drbg.c: the DRBG context of the generator under test
  rct,                \* fips_health_tests.c: statics of repetition_count_test
  aes,                \* tock_shims.c: statics of the AES shim and the key set
  dcrypto,            \* dcrypto_syscalls.c: last_error and last_fault
  personality,        \* the stored personality record, the static copy of
                      \* tock_shims.c and the write the driver has yet to end
  nvcounter,          \* nvcounter_syscalls.c: counter_global, the variable of
                      \* the caller and the counter of the driver
  callbacks,          \* per driver: the callback argument subscribed, the
                      \* operation in progress, the callback queued
  h1b_kl,             \* h1b_kl_syscalls.c: input_ptr, output_ptr and the
                      \* buffers the driver holds
  arg,                \* the argument of the last call of a function under test
  res                 \* what that call returned

vars == <<pc, kat, fips_fatal, fips_fatal_lineno, led, next_CID, lock_CID,
          timeout_CID, pending, rx_buffer, tx_buffer, U2F_sysinfo, allocs,
          counter, incrs, touch_latch, reported, frame, sent, dispatched,
          drbg, rct, aes, dcrypto, personality, nvcounter, callbacks, h1b_kl,
          arg, res>>

\* the variables of the functions exercised on their own
unit == <<drbg, rct, aes, dcrypto, personality, nvcounter, callbacks, h1b_kl,
          arg, res>>
\* the variables of the token's main program
program == <<pc, kat, fips_fatal, fips_fatal_lineno, led, next_CID, lock_CID,
             timeout_CID, pending, rx_buffer, tx_buffer, U2F_sysinfo, allocs,
             counter, incrs, touch_latch, reported, frame, sent, dispatched>>

NoFrame == [cid |-> U32Zero, raw |-> <<>>]
NoDispatch == [cid |-> U32Zero, cmd |-> 0, bcnt |-> 0, nframes |-> 0]
IdlePending == [cid |-> U32Zero, data |-> "NULL", cmd |-> 0, seqno |-> 0, bcnt |-> 0]

\* the program state as one record, threaded through the C functions
State ==
  [fips_fatal |-> fips_fatal, fips_fatal_lineno |-> fips_fatal_lineno,
   led |-> led, next_CID |-> next_CID, lock_CID |-> lock_CID,
   timeout_CID |-> timeout_CID, pending |-> pending, rx_buffer |-> rx_buffer,
   tx_buffer |-> tx_buffer, U2F_sysinfo |-> U2F_sysinfo, allocs |-> allocs,
   counter |-> counter, incrs |-> incrs, touch_latch |-> touch_latch,
   sent |-> sent, dispatched |-> dispatched]

(***************************************************************************)
(* FIPS latch (fips.c, fips_err.h)                                         *)
(***************************************************************************)
_throw_fips_err(s, err) ==
  LET ff == s.fips_fatal \cup err
  IN [s EXCEPT !.fips_fatal = ff,
               !.led = IF ff \cap FIPS_ERROR_MASK # {} THEN TRUE ELSE @]

throw_fips_err(s, err, line) ==
  _throw_fips_err(
    [s EXCEPT !.fips_fatal_lineno = IF @ = 0 THEN line ELSE @], err)

\* fips_rand: one raw word through the continuous health tests; trip says
\* whether the repetition-count or adaptive-proportion test fails on it
RCT_THROW_LINE == 38
fips_rand(s, trip) ==
  IF trip THEN throw_fips_err(s, FIPS_FATAL_TRNG, RCT_THROW_LINE) ELSE s

\* the known-answer tests of init_fips in call order: the bit and the
\* source line of the throw_fips_err taken when the test fails
KatTable ==
  << [name |-> "fips_sha256_kat",                err |-> FIPS_FATAL_HMAC_SHA256, line |-> 190],
     [name |-> "fips_hmac_sha256_kat",           err |-> FIPS_FATAL_HMAC_SHA256, line |-> 197],
     [name |-> "fips_hmac_drbg_instantiate_kat", err |-> FIPS_FATAL_HMAC_DRBG,   line |-> 204],
     [name |-> "fips_hmac_drbg_reseed_kat",      err |-> FIPS_FATAL_HMAC_DRBG,   line |-> 210],
     [name |-> "fips_hmac_drbg_generate_kat",    err |-> FIPS_FATAL_HMAC_DRBG,   line |-> 216],
     [name |-> "fips_cmac_aes128_kat",           err |-> FIPS_FATAL_CMAC_AES128, line |-> 223],
     [name |-> "fips_aes128_kat",                err |-> FIPS_FATAL_AES128,      line |-> 231],
     [name |-> "fips_ecdsa_sign_kat",            err |-> FIPS_FATAL_ECDSA,       line |-> 244],
     [name |-> "fips_p256_base_point_mul",       err |-> FIPS_FATAL_ECDSA,       line |-> 250],
     [name |-> "fips_p256_ecdsa_verify",         err |-> FIPS_FATAL_ECDSA,       line |-> 256] >>
NumKats == Len(KatTable)

\* the tests that draw health-tested random words while they run: ECDSA
\* signing picks its nonce with fips_p256_pick, which ends in
\* fips_p256_clear, i.e. eight fips_rand() draws (p256.c)
KatDrawsRandom(k) == KatTable[k].name = "fips_ecdsa_sign_kat"

\* one test of init_fips: [s, failed]
init_fips_kat(s, k, pass, trip) ==
  LET s1 == IF KatDrawsRandom(k) THEN fips_rand(s, trip) ELSE s
  IN IF pass
       THEN [s |-> s1, failed |-> FALSE]
       ELSE [s |-> throw_fips_err(s1, KatTable[k].err, KatTable[k].line),
             failed |-> TRUE]

\* the end of init_fips, reached when no test failed ("Here and only here")
init_fips_complete(s) == [s EXCEPT !.fips_fatal = FIPS_INITIALIZED]

\* init_fips as one call: failK is the first failing test (0: none fails)
RECURSIVE init_fips_from(_, _, _, _)
init_fips_from(s, k, failK, trip) ==
  IF k > NumKats THEN init_fips_complete(s)
  ELSE LET r == init_fips_kat(s, k, k # failK, trip)
       IN IF r.failed THEN r.s ELSE init_fips_from(r.s, k + 1, failK, trip)
init_fips(s, failK, trip) == init_fips_from(s, 1, failK, trip)


(***************************************************************************)
(* USB endpoint (tock_shims.c, u2f_syscalls.c)                             *)
(***************************************************************************)
\* tock_u2f_transmit: 0 when the driver took the frame, negative when
\* subscribe, allow or command was rejected
tock_u2f_transmit(ok) == IF ok THEN 0 ELSE -1

\* usbu2f_put_frame: calls tock_u2f_transmit, drops its result, returns 0
usbu2f_put_frame_rc(txrc) == 0

\* the call itself: the frame is logged with whether the driver took it;
\* failAt is the index of the transmit the driver rejects (0: none)
usbu2f_put_frame(s, fr, failAt) ==
  LET ok == (Len(s.sent) + 1 # failAt)
  IN [s  |-> [s EXCEPT !.sent = Append(@, [frame |-> fr, ok |-> ok])],
      rc |-> usbu2f_put_frame_rc(tock_u2f_transmit(ok))]

(***************************************************************************)
(* U2F HID transport (u2f_transport.c)                                     *)
(***************************************************************************)
\* consume_frame reporting the last frame one byte late
consume_frame_late(s, f) ==
  LET nreceived == 57 + s.pending.seqno * 59
      s1 == [s EXCEPT !.rx_buffer = MemCpy(@, nreceived, ContData(f), 59),
                      !.pending.seqno = (@ + 1) % 256]
  IN [s |-> s1, last |-> (nreceived + 59 > s.pending.bcnt)]

consume_frame(s, f) ==
  LET nreceived == 57 + s.pending.seqno * 59
      s1 == [s EXCEPT !.rx_buffer = MemCpy(@, nreceived, ContData(f), 59),
                      !.pending.seqno = (@ + 1) % 256]
  IN [s |-> s1, last |-> (nreceived + 59 >= s.pending.bcnt)]

ErrorFrame(cid, errno) ==
  [cid |-> cid, raw |-> <<U2FHID_ERROR, 0, 1, errno>> \o Zeros(56)]

u2fhid_err(s, cid, errno, failAt) ==
  usbu2f_put_frame(s, ErrorFrame(cid, errno), failAt).s

\* clear_pending leaving the channel id in place
clear_pending_keeps_cid(s) ==
  [s EXCEPT !.pending = [IdlePending EXCEPT !.cid = s.pending.cid]]

clear_pending(s) == [s EXCEPT !.pending = IdlePending]

cancel_timeout(s) ==
  IF s.timeout_CID # U32Zero THEN [s EXCEPT !.timeout_CID = U32Zero] ELSE s

start_timeout(s, cid) == [s EXCEPT !.timeout_CID = cid]

u2fhid_cmd_ping(s, n) ==
  [s EXCEPT !.tx_buffer = BufCpy(@, s.rx_buffer, n)]

\* u2fhid_cmd_lock taking the lock whatever the duration
u2fhid_cmd_lock_always(s, cid, duration) == [s EXCEPT !.lock_CID = cid]

u2fhid_cmd_lock(s, cid, duration) ==
  IF duration = 0 THEN [s EXCEPT !.lock_CID = U32Zero]
  ELSE [s EXCEPT !.lock_CID = cid]

u2fhid_cmd_wink(s) == s

u2fhid_cmd_prompt(s) == s

\* [s, n]: the SYSINFO record is refreshed, then copied out
u2fhid_cmd_sysinfo(s) ==
  LET sleep_cnt == 0
      ln == s.fips_fatal_lineno
      aid == [k \in 16..27 |->
                CASE k = 16 -> MaskByte(s.fips_fatal, 24)
                  [] k = 17 -> MaskByte(s.fips_fatal, 16)
                  [] k = 18 -> MaskByte(s.fips_fatal, 8)
                  [] k = 19 -> MaskByte(s.fips_fatal, 0)
                  [] k = 20 -> (ln \div 16777216) % 256
                  [] k = 21 -> (ln \div 65536) % 256
                  [] k = 22 -> (ln \div 256) % 256
                  [] k = 23 -> ln % 256
                  [] OTHER  -> sleep_cnt]
      info == [i \in 1..SYSINFO_SIZE |->
                 IF i - 1 - SYSINFO_AID_OFFSET \in 16..27
                   THEN aid[i - 1 - SYSINFO_AID_OFFSET]
                   ELSE s.U2F_sysinfo[i]]
  IN [s |-> [s EXCEPT !.U2F_sysinfo = info,
                      !.tx_buffer = MemCpy(@, 0, info, SYSINFO_SIZE)],
      n |-> SYSINFO_SIZE]

\* raw bytes of a response CONT frame
cont_frame(seqno, bcnt, buf_resp) ==
  LET nsent == 57 + seqno * 59
      nremaining == bcnt - nsent
  IN <<seqno>> \o PiecePrefix(buf_resp, seqno + 2, nremaining)

\* raw bytes of a response INIT frame
init_frame(cmd, bcnt, buf_resp) ==
  <<cmd, bcnt \div 256, bcnt % 256>> \o PiecePrefix(buf_resp, 1, bcnt)


(***************************************************************************)
(* Key handles (u2f.c, tock_shims.c)                                       *)
(*                                                                         *)
(* Byte strings are sequences of numbers 0..255.  The AES engine and the   *)
(* SHA-256 engine are hardware; a keyed permutation of 16-byte blocks and  *)
(* a 16-byte checksum stand in for them.                                   *)
(***************************************************************************)
RECURSIVE ByteXor(_, _)
ByteXor(a, b) ==
  IF a = 0 THEN b
  ELSE IF b = 0 THEN a
  ELSE ((a + b) % 2) + 2 * ByteXor(a \div 2, b \div 2)

XorBytes(a, b) == [i \in 1..Len(a) |-> ByteXor(a[i], b[i])]

RECURSIVE SumBytes(_, _)
SumBytes(x, n) == IF n = 0 THEN 0 ELSE x[n] + SumBytes(x, n - 1)

\* the block cipher: byte 1 absorbs the other bytes, then masks them
aes_encrypt(k, x) ==
  LET a1 == (SumBytes(x, AES_BLOCK_LEN) + k[1]) % 256
  IN [j \in 1..AES_BLOCK_LEN |->
        IF j = 1 THEN a1 ELSE (x[j] + a1 + k[j]) % 256]

aes_decrypt(k, c) ==
  LET a == [j \in 1..AES_BLOCK_LEN |->
              IF j = 1 THEN c[1] ELSE (c[j] + 512 - c[1] - k[j]) % 256]
  IN [j \in 1..AES_BLOCK_LEN |->
        IF j = 1
          THEN (2 * a[1] + 16 * 256 - SumBytes(a, AES_BLOCK_LEN) + 256 - k[1]) % 256
          ELSE a[j]]

\* the first 16 bytes of the digest of x
SHA256(x) ==
  [i \in 1..AES_BLOCK_LEN |-> (SumBytes(x, Len(x)) + 31 * x[i] + 7 * i) % 256]

\* fips_aes_block in CBC mode, the engine set up by fips_aes_init(key, iv, mode)
AES_ENCRYPT_MODE == 1
AES_DECRYPT_MODE == 0
\* fips_aes_block with the direction left at encryption
fips_aes_block_enc(key, iv, mode, in) == aes_encrypt(key, XorBytes(in, iv))

fips_aes_block(key, iv, mode, in) ==
  IF mode = AES_ENCRYPT_MODE
    THEN aes_encrypt(key, XorBytes(in, iv))
    ELSE XorBytes(aes_decrypt(key, in), iv)

\* gen_scramblek: the key derived from the salt of the personality
scramblek == [i \in 1..AES_BLOCK_LEN |-> (17 * i + 3) % 256]

interleave32(a, b) ==
  [i \in 1..KH_LEN |->
     IF i > 48 THEN 0
     ELSE IF i % 2 = 1 THEN a[(i + 1) \div 2] ELSE b[i \div 2]]

deinterleave64(in) ==
  [a |-> [i \in 1..32 |-> IF i <= 24 THEN in[2 * i - 1] ELSE 0],
   b |-> [i \in 1..32 |-> IF i <= 24 THEN in[2 * i] ELSE 0]]

\* the three blocks the cipher transforms
kh_blocks(in, mode) ==
  fips_aes_block(scramblek, Zeros(AES_BLOCK_LEN), mode, SubSeq(in, 1, 16))
  \o fips_aes_block(scramblek, Zeros(AES_BLOCK_LEN), mode, SubSeq(in, 17, 32))
  \o fips_aes_block(scramblek, Zeros(AES_BLOCK_LEN), mode, SubSeq(in, 33, 48))

\* the fourth block is masked with the digest of the three blocks written
kh_mask(in, out48) == XorBytes(SubSeq(in, 49, 64), SHA256(out48))

obfuscate_kh_blocks(in, out48) == out48 \o kh_mask(in, out48)

obfuscate_kh(in, mode) == obfuscate_kh_blocks(in, kh_blocks(in, mode))


(***************************************************************************)
(* U2F protocol engine as seen by the transport (u2f.c)                    *)
(*                                                                         *)
(* Key handles are computed as the code computes them.  Elliptic-curve    *)
(* keys, certificates and signatures are not: h is what one handler run    *)
(* draws and meets,                                                        *)
(*   h.fail    0, or k when the handler returns U2F_SW_WTF + k             *)
(*   h.thrown  "none" or the fatal error thrown while keys are generated   *)
(*   h.varlen  length of the variable part of a successful response        *)
(*   h.seed    the bytes kl_random leaves in the origin seed               *)
(*   h.pad     the bytes rand_bytes puts behind the interleaved part       *)
(***************************************************************************)
U2F_REGISTER == 1
U2F_AUTHENTICATE == 2
U2F_VERSION == 3
U2F_SW_NO_ERROR == 36864
U2F_SW_INS_NOT_SUPPORTED == 27904
U2F_REGISTER_REQ_SIZE == 64
U2F_AUTHENTICATE_REQ_SIZE == 32 + 32 + 1 + 64
\* registerId, pubKey, keyHandleLen, key handle
U2F_REGISTER_FIXED_LEN == 1 + 65 + 1 + 64
\* flags, counter
U2F_AUTHENTICATE_FIXED_LEN == 1 + 4
U2F_VERSION_STRING == <<85, 50, 70, 95, 86, 50>>

U2F_SW_CONDITIONS_NOT_SATISFIED == 27013
U2F_SW_WRONG_DATA == 27264
U2F_REGISTER_ID == 5
U2F_POINT_UNCOMPRESSED == 4

\* p1 & flag
Flag(p1, flag) == (p1 \div flag) % 2

\* n bytes of the request data from offset off on
ApduData(s, apdu, off, n) ==
  [i \in 1..n |-> ByteAt(s.rx_buffer, apdu.data + off + i - 1)]

\* a handler returns the status word sw and leaves *obuf_len alone
Status(s, sw) == [s |-> s, sw |-> sw, obuf_len |-> 0]

\* bytes derived from the private key of a seed: the public key, and the
\* certificate and signature made with the key
origin_pubkey(seed) == [i \in 1..64 |-> (SumBytes(seed, 32) + 3 * i) % 256]
OpaqueBody(seed, n) == [i \in 1..n |-> (SumBytes(seed, 32) + 160 + i) % 256]

ThrownErr(name) ==
  CASE name = "trng"  -> [err |-> FIPS_FATAL_TRNG, line |-> RCT_THROW_LINE]
    [] name = "ecdsa" -> [err |-> FIPS_FATAL_ECDSA, line |-> 168]

\* tock_shims.c: the latched touch is returned, and cleared if consume is set
tock_pop_check_presence(s, consume) ==
  [s |-> IF consume # 0 THEN [s EXCEPT !.touch_latch = POP_TOUCH_NO] ELSE s,
   r |-> s.touch_latch]

\* u2f.c: the presence check of the handlers
pop_check_presence(s, consume, bpm) == [s |-> s, r |-> POP_TOUCH_YES]

flash_ctr_incr(s) == [s EXCEPT !.counter = U32Inc(@), !.incrs = @ + 1]

\* fips_keygen once the counter is bumped for a new key pair
fips_keygen_new(s, h) ==
  IF s.counter = U32(65535, 65535)
    THEN throw_fips_err(s, FIPS_FATAL_TOO_MANY_KEYS, 159)
  ELSE IF h.thrown = "ecdsa"
    THEN throw_fips_err(s, ThrownErr("ecdsa").err, ThrownErr("ecdsa").line)
  ELSE s

\* fips_keygen: the scalar is picked with health-tested random words; a new
\* key pair (x, y not NULL) bumps the counter and is tested for consistency
fips_keygen(s, newkey, h) ==
  IF newkey
    THEN fips_keygen_new(flash_ctr_incr(fips_rand(s, h.thrown = "trng")), h)
    ELSE fips_rand(s, h.thrown = "trng")

\* the seed origin_keypair draws for a new key: the last 8 bytes are zeroed
kl_random(h) == [i \in 1..32 |-> IF i <= 24 THEN h.seed[i] ELSE 0]

u2f_version(s, apdu) ==
  IF apdu.len # 0 THEN Status(s, U2F_SW_WRONG_LENGTH)
  ELSE [s |-> [s EXCEPT !.tx_buffer = MemCpy(@, 0, U2F_VERSION_STRING, 6)],
        sw |-> U2F_SW_NO_ERROR, obuf_len |-> 6]

\* u2f_register: buf, the key handle before it is obfuscated
register_buf(appId, seed, p1, h) ==
  IF Flag(p1, G2F_ATTEST) # 0
    THEN interleave32(appId, seed)
    ELSE SubSeq(interleave32(appId, seed), 1, 48) \o h.pad

\* u2f_register: registerId, pubKey, keyHandleLen and the key handle
register_resp(seed, kh) ==
  <<U2F_REGISTER_ID, U2F_POINT_UNCOMPRESSED>> \o origin_pubkey(seed)
    \o <<KH_LEN>> \o kh

\* u2f_register from the attestation key on; s holds the response so far
register_attest(s, p1, h, seed) ==
  IF Flag(p1, G2F_ATTEST) # 0 /\ h.fail = 3 THEN Status(s, U2F_SW_WTF + 3)
  ELSE IF h.fail = 4 THEN Status(s, U2F_SW_WTF + 4)
  ELSE IF h.fail = 5 THEN Status(s, U2F_SW_WTF + 5)
  ELSE [s |-> [s EXCEPT !.tx_buffer =
                 MemCpy(@, U2F_REGISTER_FIXED_LEN,
                        OpaqueBody(seed, h.varlen), h.varlen)],
        sw |-> U2F_SW_NO_ERROR, obuf_len |-> U2F_REGISTER_FIXED_LEN + h.varlen]

\* u2f_register from the key handle on; s is the state origin_keypair left
register_kh(s, appId, p1, h, seed) ==
  IF h.fail = 2 THEN Status(s, U2F_SW_WTF + 2)
  ELSE register_attest(
         [s EXCEPT !.tx_buffer =
            MemCpy(@, 0,
                   register_resp(seed,
                     obfuscate_kh(register_buf(appId, seed, p1, h),
                                  AES_ENCRYPT_MODE)),
                   U2F_REGISTER_FIXED_LEN)],
         p1, h, seed)

\* u2f_register once the presence has been checked
register_checked(p, apdu, h) ==
  IF p.r # POP_TOUCH_YES /\ Flag(apdu.p1, G2F_TUP) # 0
    THEN Status(p.s, U2F_SW_CONDITIONS_NOT_SATISFIED)
  ELSE IF p.s.fips_fatal # FIPS_INITIALIZED
    THEN Status(p.s, U2F_SW_WTF + 6)
  ELSE IF h.fail = 1
    THEN Status(p.s, U2F_SW_WTF + 1)
  ELSE register_kh(fips_keygen(p.s, TRUE, h), ApduData(p.s, apdu, 32, 32),
                   apdu.p1, h, kl_random(h))

u2f_register(s, apdu, h) ==
  IF apdu.len # U2F_REGISTER_REQ_SIZE
    THEN Status(s, U2F_SW_WRONG_LENGTH)
    ELSE register_checked(
           pop_check_presence(s, Flag(apdu.p1, G2F_CONSUME) * G2F_CONSUME, 250),
           apdu, h)

equal_arrays(a, b, n) == \A i \in 1..n : a[i] = b[i]

\* u2f_authenticate: flags and the counter, most significant byte first
authenticate_resp(flags, count) ==
  <<flags, U32Byte(count, 3), U32Byte(count, 2), U32Byte(count, 1),
    U32Byte(count, 0)>>

\* u2f_authenticate from the signature on; s holds flags and counter
authenticate_sign(s, h, seed) ==
  IF h.fail = 2 THEN Status(s, U2F_SW_WTF + 2)
  ELSE IF h.fail = 3 THEN Status(fips_keygen(s, FALSE, h), U2F_SW_WTF + 3)
  ELSE [s |-> [fips_keygen(s, FALSE, h) EXCEPT !.tx_buffer =
                 MemCpy(@, U2F_AUTHENTICATE_FIXED_LEN,
                        OpaqueBody(seed, h.varlen), h.varlen)],
        sw |-> U2F_SW_NO_ERROR,
        obuf_len |-> U2F_AUTHENTICATE_FIXED_LEN + h.varlen]

\* u2f_authenticate: the counter is bumped and written behind the flags
authenticate_count(s, flags, h, seed) ==
  authenticate_sign(
    [s EXCEPT !.tx_buffer =
       MemCpy(@, 0, authenticate_resp(flags, s.counter),
              U2F_AUTHENTICATE_FIXED_LEN)],
    h, seed)

\* u2f_authenticate once the presence has been checked
authenticate_checked(p, apdu, h, seed) ==
  IF Flag(apdu.p1, G2F_TUP) # 0 /\ p.r # POP_TOUCH_YES
    THEN Status([p.s EXCEPT !.tx_buffer = MemCpy(@, 0, <<0>>, 1)],
                U2F_SW_CONDITIONS_NOT_SATISFIED)
    ELSE authenticate_count(flash_ctr_incr(p.s),
                            IF p.r = POP_TOUCH_YES THEN 1 ELSE 0, h, seed)

\* the CHECK flag looked at only after the counter is bumped
authenticate_kh_late(s, apdu, h, d) ==
  IF ~equal_arrays(d.a, ApduData(s, apdu, 32, 32), 24)
    THEN Status(s, U2F_SW_WRONG_DATA)
  ELSE IF Flag(apdu.p1, G2F_CHECK) # 0
    THEN Status(flash_ctr_incr(s), U2F_SW_CONDITIONS_NOT_SATISFIED)
  ELSE authenticate_checked(
         pop_check_presence(s, Flag(apdu.p1, G2F_CONSUME) * G2F_CONSUME, 500),
         apdu, h, d.b)

\* u2f_authenticate once the key handle is unwrapped into d = [a, b]
authenticate_kh(s, apdu, h, d) ==
  IF ~equal_arrays(d.a, ApduData(s, apdu, 32, 32), 24)
    THEN Status(s, U2F_SW_WRONG_DATA)
  ELSE IF Flag(apdu.p1, G2F_CHECK) # 0
    THEN Status(s, U2F_SW_CONDITIONS_NOT_SATISFIED)
  ELSE authenticate_checked(
         pop_check_presence(s, Flag(apdu.p1, G2F_CONSUME) * G2F_CONSUME, 500),
         apdu, h, d.b)

u2f_authenticate(s, apdu, h) ==
  IF apdu.len # U2F_AUTHENTICATE_REQ_SIZE
    THEN Status(s, U2F_SW_WRONG_LENGTH)
  ELSE IF s.fips_fatal # FIPS_INITIALIZED
    THEN Status(s, U2F_SW_WTF + 6)
  ELSE IF h.fail = 1
    THEN Status(s, U2F_SW_WTF + 1)
  ELSE authenticate_kh(
         s, apdu, h,
         deinterleave64(obfuscate_kh(ApduData(s, apdu, 65, KH_LEN),
                                     AES_DECRYPT_MODE)))

\* apdu_rcv passing the result of the handler on as it is
apdu_fips_gate_open(r) == r

\* apdu_rcv after REGISTER or AUTHENTICATE: a latch that is not
\* FIPS_INITIALIZED voids the response
apdu_fips_gate(r) ==
  IF r.s.fips_fatal # FIPS_INITIALIZED
    THEN [r EXCEPT !.obuf_len = 0, !.sw = U2F_SW_WTF + 6]
    ELSE r

\* apdu_rcv: the instruction switch
apdu_switch(s, CLA, INS, apdu, h) ==
  IF CLA # 0 THEN [s |-> s, sw |-> U2F_SW_CLA_NOT_SUPPORTED, obuf_len |-> 0]
  ELSE CASE INS = U2F_REGISTER     -> apdu_fips_gate(u2f_register(s, apdu, h))
         [] INS = U2F_AUTHENTICATE -> apdu_fips_gate(u2f_authenticate(s, apdu, h))
         [] INS = U2F_VERSION      -> u2f_version(s, apdu)
         [] OTHER -> [s |-> s, sw |-> U2F_SW_INS_NOT_SUPPORTED, obuf_len |-> 0]

\* the status word appended low byte first
apdu_append_sw_le(r, n) ==
  [s |-> [r.s EXCEPT !.tx_buffer =
            MemCpy(@, n - 2, <<r.sw % 256, r.sw \div 256>>, 2)],
   n |-> n]

\* apdu_rcv: the status word is appended, [s, n] is returned
apdu_append_sw(r, n) ==
  [s |-> [r.s EXCEPT !.tx_buffer =
            MemCpy(@, n - 2, <<r.sw \div 256, r.sw % 256>>, 2)],
   n |-> n]

apdu_status(r) == apdu_append_sw(r, (r.obuf_len + SW_OFFSET) % 65536)

\* the APDU length: one byte, or two more when that byte is zero
apdu_len(ibuf, in_len) ==
  IF in_len >= 5 /\ ByteAt(ibuf, 4) # 0 THEN ByteAt(ibuf, 4)
  ELSE IF in_len >= 7 THEN ByteAt(ibuf, 5) * 256 + ByteAt(ibuf, 6)
  ELSE 0

\* the offset of the request data: 5, or 7 when the length takes three bytes
apdu_data(ibuf, in_len) ==
  IF in_len >= 5 /\ ByteAt(ibuf, 4) # 0 THEN 5
  ELSE IF in_len >= 7 THEN 7
  ELSE 5

\* [s, n]: the response is left in tx_buffer, n is its length
apdu_rcv(s, in_len, h) ==
  apdu_status(
    apdu_switch(s, ByteAt(s.rx_buffer, 0), ByteAt(s.rx_buffer, 1),
                [p1 |-> ByteAt(s.rx_buffer, 2), p2 |-> ByteAt(s.rx_buffer, 3),
                 len |-> apdu_len(s.rx_buffer, in_len),
                 data |-> apdu_data(s.rx_buffer, in_len)],
                h))

u2fhid_cmd_msg(s, in_len, h) == apdu_rcv(s, in_len, h)


(***************************************************************************)
(* Response framing and command dispatch (u2f_transport.c)                 *)
(*                                                                         *)
(* e is what the environment decides during one handler call:              *)
(*   e.failAt        the transmit the USB driver rejects (0: none)         *)
(*   e.h             the outcome of a REGISTER/AUTHENTICATE run            *)
(*   e.failK, e.trip the outcome of a lazily started init_fips             *)
(***************************************************************************)
KnownCmds == {U2FHID_MSG, U2FHID_PING, U2FHID_LOCK, U2FHID_WINK,
              U2FHID_PROMPT, U2FHID_SYSINFO}

\* the for loop sending CONT frames i .. n-1
RECURSIVE send_cont_frames(_, _, _, _, _, _)
send_cont_frames(s, i, n, rsp_len, cid, failAt) ==
  IF i >= n THEN s
  ELSE LET p == usbu2f_put_frame(
                  s, [cid |-> cid, raw |-> cont_frame(i, rsp_len, s.tx_buffer)],
                  failAt)
       IN IF p.rc < 0 THEN p.s
          ELSE send_cont_frames(p.s, i + 1, n, rsp_len, cid, failAt)

\* the number of CONT frames rounded down
num_cont_frames_floor(rsp_len) ==
  IF rsp_len > 57 THEN ((rsp_len - 57) \div 59) % 256 ELSE 0

\* number of CONT frames of a response; the C variable is a uint8_t
num_cont_frames(rsp_len) ==
  IF rsp_len > 57 THEN (((rsp_len - 57) + 58) \div 59) % 256 ELSE 0

\* u2fhid_response_msg: the CONT frames follow unless the INIT frame failed
send_after_init(p, rsp_len, cid, failAt) ==
  IF p.rc < 0 THEN p.s
  ELSE send_cont_frames(p.s, 0, num_cont_frames(rsp_len), rsp_len, cid, failAt)

\* u2fhid_response_msg: the response r = [s, n] is framed and sent, and the
\* pending slot is cleared
send_response(r, cid, cmd, failAt) ==
  clear_pending(
    send_after_init(
      usbu2f_put_frame(
        r.s, [cid |-> cid, raw |-> init_frame(cmd, r.n, r.s.tx_buffer)], failAt),
      r.n, cid, failAt))

\* u2fhid_response_msg: the command switch, [s, n]
run_cmd(s, req, cmd, e) ==
  CASE cmd = U2FHID_MSG     -> u2fhid_cmd_msg(s, req.bcnt, e.h)
    [] cmd = U2FHID_PING    -> [s |-> u2fhid_cmd_ping(s, req.bcnt), n |-> req.bcnt]
    [] cmd = U2FHID_LOCK    -> [s |-> u2fhid_cmd_lock(s, req.cid,
                                                      ByteAt(s.rx_buffer, 0)),
                                n |-> 0]
    [] cmd = U2FHID_WINK    -> [s |-> u2fhid_cmd_wink(s), n |-> 0]
    [] cmd = U2FHID_PROMPT  -> [s |-> u2fhid_cmd_prompt(s), n |-> 0]
    [] cmd = U2FHID_SYSINFO -> u2fhid_cmd_sysinfo(s)

\* u2fhid_response_msg from the switch on: an unknown command is answered
\* with ERR_INVALID_CMD
respond(s, req, cmd, e) ==
  IF cmd \notin KnownCmds
    THEN clear_pending(u2fhid_err(s, req.cid, ERR_INVALID_CMD, e.failAt))
    ELSE send_response(run_cmd(s, req, cmd, e), req.cid, cmd, e.failAt)

\* u2fhid_response_msg: init_fips runs if it has not run yet
lazy_init_fips(s, e) ==
  IF s.fips_fatal = FIPS_UNINITIALIZED THEN init_fips(s, e.failK, e.trip) ELSE s

\* the call is recorded in `dispatched`
note_dispatch(s, req) ==
  [s EXCEPT !.dispatched = [cid |-> req.cid, cmd |-> req.cmd,
                            bcnt |-> req.bcnt, nframes |-> req.seqno]]

u2fhid_response_msg(s0, e) ==
  respond(lazy_init_fips(cancel_timeout(note_dispatch(s0, s0.pending)), e),
          s0.pending,
          IF s0.pending.cmd >= 128 THEN s0.pending.cmd
          ELSE s0.pending.cmd + TYPE_MASK,
          e)

\* next_CID++ without the roll-over
advance_CID_plain(next) == U32Inc(next)

\* u2fhid_cmd_init: next_CID++, rolling over to 1 before CID_BROADCAST
advance_CID(next) ==
  IF U32Inc(next) = CID_BROADCAST THEN U32(0, 1) ELSE U32Inc(next)

u2fhid_cmd_init(s, f, failAt) ==
  LET bc == (f.cid = CID_BROADCAST)
      proposed_cid == IF bc THEN s.next_CID ELSE f.cid
      s1 == IF bc
              THEN [s EXCEPT !.next_CID = advance_CID(@), !.allocs = @ + 1]
              ELSE s
      response ==
        [cid |-> IF bc THEN CID_BROADCAST ELSE f.cid,
         raw |-> <<U2FHID_INIT, 0, 17>> \o Bytes(InitData(f), 0, 8) \o
                 <<U32Byte(proposed_cid, 0), U32Byte(proposed_cid, 1),
                   U32Byte(proposed_cid, 2), U32Byte(proposed_cid, 3),
                   U2FHID_IF_VERSION, 0, 0, 0, CAPFLAG_WINK + CAPFLAG_LOCK>> \o
                 Zeros(40)]
  IN usbu2f_put_frame(s1, response, failAt).s

\* u2fhid_process_frame, "Abort an ongoing multi-packet transaction": only
\* the transaction of the channel the U2FHID_INIT frame came in on
abort_on_init_always(s, f) == clear_pending(cancel_timeout(s))

abort_on_init(s, f) ==
  IF f.cid = s.pending.cid THEN clear_pending(cancel_timeout(s)) ELSE s

\* u2fhid_process_frame, "Device in use by another channel", with the
\* pending slot cleared as well
in_use_by_other_clears(s, f, failAt) ==
  clear_pending(u2fhid_err(s, f.cid, ERR_CHANNEL_BUSY, failAt))

\* u2fhid_process_frame, "Device in use by another channel"
in_use_by_other(s, f, failAt) == u2fhid_err(s, f.cid, ERR_CHANNEL_BUSY, failAt)

\* u2fhid_process_frame, "Bad seqno", without clearing the channel
bad_seqno_keeps(s, f, failAt) == u2fhid_err(s, f.cid, ERR_INVALID_SEQ, failAt)

\* u2fhid_process_frame, "Bad seqno": error, then "Clear the channel +
\* timeout"
bad_seqno(s, f, failAt) ==
  clear_pending(cancel_timeout(u2fhid_err(s, f.cid, ERR_INVALID_SEQ, failAt)))

\* u2fhid_process_frame, "Expected CONT frame", taking the frame as the
\* start of a new message
expected_cont_restarts(s, f, failAt) ==
  [start_timeout(s, f.cid) EXCEPT
     !.pending = [cid |-> f.cid, data |-> "rx_buffer", cmd |-> FRAME_CMD(f),
                  seqno |-> 0, bcnt |-> MSG_LEN(f)]]

\* u2fhid_process_frame, "Expected CONT frame": error, then "Clear the
\* channel + timeout"
expected_cont(s, f, failAt) ==
  clear_pending(cancel_timeout(u2fhid_err(s, f.cid, ERR_INVALID_SEQ, failAt)))

\* u2fhid_process_frame, "Random CONT packet", answered with an error
random_cont_answered(s, f) == u2fhid_err(s, f.cid, ERR_INVALID_SEQ, 0)

\* u2fhid_process_frame, "Random CONT packet; ignoring"
random_cont(s, f) == s

\* u2fhid_process_frame, "Start new transaction": [s, last]
start_transaction(s, f, bcnt) ==
  [s |-> [start_timeout(s, f.cid) EXCEPT
            !.pending = [cid |-> f.cid, data |-> "rx_buffer",
                         cmd |-> FRAME_CMD(f), seqno |-> 0, bcnt |-> bcnt],
            !.rx_buffer = MemCpy(@, 0, InitData(f),
                                 IF bcnt <= 57 THEN bcnt ELSE 57)],
   last |-> bcnt <= 57]

\* the message is dispatched once its last frame is in
dispatch_if_last(c, e) == IF c.last THEN u2fhid_response_msg(c.s, e) ELSE c.s

u2fhid_process_frame(s, f, e) ==
  IF f.cid = U32Zero
    THEN u2fhid_err(s, f.cid, ERR_INVALID_CID, e.failAt)
  ELSE IF f.cid = CID_BROADCAST /\ FRAME_CMD(f) # U2FHID_INIT % 128
    THEN u2fhid_err(s, f.cid, ERR_INVALID_CID, e.failAt)
  ELSE IF FRAME_TYPE(f) = TYPE_INIT /\ FRAME_CMD(f) = U2FHID_INIT % 128
    THEN u2fhid_cmd_init(abort_on_init(s, f), f, e.failAt)
  ELSE IF s.lock_CID # U32Zero /\ f.cid # s.lock_CID
    THEN u2fhid_err(s, f.cid, ERR_CHANNEL_BUSY, e.failAt)
  ELSE IF FRAME_TYPE(f) = TYPE_INIT
    THEN IF f.cid # s.pending.cid /\ s.pending.cid # U32Zero
           THEN in_use_by_other(s, f, e.failAt)
         ELSE IF s.pending.cid # U32Zero
           THEN expected_cont(s, f, e.failAt)
         ELSE IF MSG_LEN(f) > MAX_BCNT
           THEN u2fhid_err(s, f.cid, ERR_INVALID_LEN, e.failAt)
         ELSE dispatch_if_last(start_transaction(s, f, MSG_LEN(f)), e)
  ELSE IF s.pending.cid = U32Zero \/ s.pending.cid # f.cid
    THEN random_cont(s, f)
  ELSE IF s.pending.seqno # ContSeq(f)
    THEN bad_seqno(s, f, e.failAt)
  ELSE dispatch_if_last(consume_frame(start_timeout(s, s.pending.cid), f), e)


(***************************************************************************)
(* Frames the host sends                                                   *)
(***************************************************************************)
\* n payload bytes b, b+1, b+2, ...
Pattern(b, n) == [i \in 1..n |-> (b + i - 1) % 256]
Pad(bytes, n) == bytes \o Zeros(n - Len(bytes))

MkInit(cid, cmd, len, data) ==
  [cid |-> cid, raw |-> <<cmd, len \div 256, len % 256>> \o Pad(data, INIT_DATA_SIZE)]
MkCont(cid, seq, data) ==
  [cid |-> cid, raw |-> <<seq>> \o Pad(data, CONT_DATA_SIZE)]

Chan(k) == U32(0, k)
Channels == {Chan(k) : k \in 1..MaxChan}
AllCids == Channels \cup {U32Zero, CID_BROADCAST}
\* every channel sends its own payload bytes
Fill(c) == 16 * (c[2] % 16)
LockDurations == {0, 10}

\* INIT-type frames of the transport scenario
InitFrames ==
  {MkInit(c, U2FHID_PING, n, Pattern(Fill(c), 57)) :
     c \in Channels, n \in {0, 117, MAX_BCNT + 1}}
  \cup {MkInit(c, U2FHID_PING, 0, <<>>) : c \in {U32Zero, CID_BROADCAST}}
  \cup {MkInit(c, U2FHID_LOCK, 1, <<d>>) : c \in Channels, d \in LockDurations}
  \cup {MkInit(c, U2FHID_INIT, 8, Pattern(7, 8)) : c \in Channels \cup {CID_BROADCAST}}
  \cup {MkInit(c, U2FHID_SYNC, 0, <<>>) : c \in Channels}

\* CONT-type frames: the payload is fixed by the channel and the sequence
\* number; sequence number 6 on the broadcast channel reads as command 6
ContFramesOn(cids, seqs) ==
  {MkCont(c, q, Pattern(Fill(c) + q + 1, 59)) : c \in cids, q \in seqs}
ContFrames ==
  ContFramesOn(Channels, {0, 1, 2, 6}) \cup ContFramesOn({CID_BROADCAST}, {6})

\* outcomes of a REGISTER/AUTHENTICATE run
\*   h.seed    the seed kl_random draws for a new key
\*   h.pad     the 16 bytes rand_bytes draws for the end of a key handle
Outcome(fail, thrown, varlen, seed, pad) ==
  [fail |-> fail, thrown |-> thrown, varlen |-> varlen,
   seed |-> Pattern(seed, 32), pad |-> Pattern(pad, 16)]
NoOutcome == Outcome(0, "none", 0, 0, 0)
HandlerOutcomes ==
  {Outcome(0, "none", 9, 64, 200), Outcome(1, "none", 0, 64, 200),
   Outcome(0, "trng", 9, 64, 200)}

(***************************************************************************)
(* Actions                                                                 *)
(***************************************************************************)
\* the frame may complete a MSG request, whose handler outcome matters
MayRunHandler(f) ==
  \/ FRAME_TYPE(f) = TYPE_INIT /\ FRAME_CMD(f) = U2FHID_MSG % 128
  \/ FRAME_TYPE(f) = TYPE_CONT /\ pending.cmd = U2FHID_MSG % 128

Envs(f) ==
  [failAt : 0..MaxTxFail,
   h : IF MayRunHandler(f) THEN HandlerOutcomes ELSE {NoOutcome},
   failK : IF fips_fatal = FIPS_UNINITIALIZED THEN 0..NumKats ELSE {0},
   trip : IF fips_fatal = FIPS_UNINITIALIZED THEN BOOLEAN ELSE {FALSE}]

\* the state a call of u2fhid_process_frame starts from
CallState == [State EXCEPT !.sent = <<>>, !.dispatched = NoDispatch]

(***************************************************************************)
(* HMAC-DRBG (drbg.c)                                                      *)
(*                                                                         *)
(* A context is carried as its reseed_counter: K and V decide the bytes    *)
(* DRBG_generate writes, never its return value or the counter.            *)
(***************************************************************************)
DRBG_reseed(ctx) == [ctx EXCEPT !.reseed_counter = 1]

\* K and V are set, then the context is reseeded
DRBG_init == DRBG_reseed([reseed_counter |-> 0])

\* DRBG_generate refusing only past 10000
DRBG_generate_late(ctx, output_len, input_len) ==
  IF output_len > 7500 \div 8 THEN [ctx |-> ctx, rv |-> 1]
  ELSE IF ctx.reseed_counter > 10000 THEN [ctx |-> ctx, rv |-> 2]
  ELSE [ctx |-> [ctx EXCEPT !.reseed_counter = @ + 1], rv |-> 0]

\* [ctx, rv]: the context afterwards and the value returned
DRBG_generate(ctx, output_len, input_len) ==
  IF output_len > 7500 \div 8 THEN [ctx |-> ctx, rv |-> 1]
  ELSE IF ctx.reseed_counter >= 10000 THEN [ctx |-> ctx, rv |-> 2]
  ELSE [ctx |-> [ctx EXCEPT !.reseed_counter = @ + 1], rv |-> 0]

(***************************************************************************)
(* AES shim (tock_shims.c, fips_aes.h): the statics of fips_aes_init and   *)
(* the key handed to the AES engine, <<>> while none was.                  *)
(***************************************************************************)
AES_CIPHER_MODE_ECB == 0
AES_CIPHER_MODE_CTR == 1
AES_CIPHER_MODE_CBC == 2
AES_CIPHER_MODE_GCM == 3
AES256_BLOCK_CIPHER_KEY_SIZE == 32

\* encrypt_mode, cipher_mode and initialization_vector as initialised
AesStatics ==
  [encrypt_mode |-> AES_ENCRYPT_MODE, cipher_mode |-> AES_CIPHER_MODE_CTR,
   initialization_vector |-> <<>>, key |-> <<>>]

\* fips_aes_init from the key length on; a holds the modes and the iv
aes_init_key(a, key, key_len) ==
  IF key_len \div 8 = AES256_BLOCK_CIPHER_KEY_SIZE
    THEN [aes |-> [a EXCEPT !.key = key], rv |-> 1]
  ELSE IF key_len \div 8 = AES256_BLOCK_CIPHER_KEY_SIZE \div 2
    THEN [aes |-> [a EXCEPT !.key = key], rv |-> 1]
  ELSE [aes |-> a, rv |-> 0]

\* [aes, rv]: the statics afterwards and the value returned; the mode
\* tested is the static cipher_mode, the one the previous call stored
fips_aes_init(a, key, key_len, iv, c_mode, e_mode) ==
  IF /\ a.cipher_mode # AES_CIPHER_MODE_CTR
     /\ a.cipher_mode # AES_CIPHER_MODE_CBC
     /\ a.cipher_mode # AES_CIPHER_MODE_ECB
    THEN [aes |-> a, rv |-> 0]
    ELSE aes_init_key([a EXCEPT !.encrypt_mode = e_mode,
                                !.cipher_mode = c_mode,
                                !.initialization_vector = iv],
                      key, key_len)

(***************************************************************************)
(* The big-number engine (dcrypto_syscalls.c).  k holds what the kernel     *)
(* answers: the return codes of subscribe, of the two allows and of the    *)
(* command, and the error and fault the completion callback is called with *)
(***************************************************************************)
TOCK_DCRYPTO_FAULT_UNKNOWN == 12
DcryptoStatics == [last_error |-> 0, last_fault |-> 0]

\* a return value: an integer, or TOCK_EBUSY of tock.h, which is negative
Rv(n) == [name |-> "int", value |-> n]
TOCK_EBUSY == [name |-> "TOCK_EBUSY", value |-> 0]
Negative(rv) == rv.name = "TOCK_EBUSY" \/ rv.value < 0

tock_dcrypto_run_done(d, error, fault) ==
  [d EXCEPT !.last_error = error, !.last_fault = fault]

tock_dcrypto_run(d, k) ==
  IF k.subscribe < 0 THEN [d |-> d, rv |-> Rv(k.subscribe)]
  ELSE IF k.allow_data < 0 THEN [d |-> d, rv |-> TOCK_EBUSY]
  ELSE IF k.allow_prog < 0 THEN [d |-> d, rv |-> TOCK_EBUSY]
  ELSE IF k.command < 0 THEN [d |-> d, rv |-> Rv(k.command)]
  ELSE IF tock_dcrypto_run_done(d, k.error, k.fault).last_error # 0
    THEN [d |-> tock_dcrypto_run_done(d, k.error, k.fault),
          rv |-> Rv(tock_dcrypto_run_done(d, k.error, k.fault).last_fault)]
    ELSE [d |-> tock_dcrypto_run_done(d, k.error, k.fault), rv |-> Rv(0)]

(***************************************************************************)
(* The personality (main.c, personality_syscalls.c, tock_shims.c).  A      *)
(* record perso_st is kept as its salt, its cert_hash and its chksum, each *)
(* a number below 256; the key pair and the certificate are functions of   *)
(* the salt.  The variable personality holds the stored record, the static *)
(* copy of tock_shims.c and the record of a SET the driver has not ended   *)
(***************************************************************************)
perso_st(salt, cert_hash, chksum) ==
  [salt |-> salt, cert_hash |-> cert_hash, chksum |-> chksum]

\* the key ladder's derivation with KL_SEED_ATTEST
kl_derive_attest(input) == (5 * input + 113) % 256
\* SHA-256 of the certificate generate_cert builds for the key pair that
\* individual_keypair derives from the salt
cert_hash_of(salt) == (3 * salt + 7) % 256

\* zeroed memory, and memory filled with 0xff
ZeroPerso == perso_st(0, 0, 0)
FilledPerso == perso_st(255, 255, 255)
NoSet == [busy |-> FALSE, id |-> ZeroPerso]

\* check_personality(id); derive_err is what kl_derive_attest returns
check_personality(id, derive_err) ==
  IF derive_err = 0 /\ kl_derive_attest(id.cert_hash) = id.chksum
    THEN "EC_SUCCESS" ELSE "EC_ERROR_UNKNOWN"

\* new_personality: k.salt is what kl_random draws, k.random_err and
\* k.derive_err what kl_random and kl_derive_attest return; a call that
\* fails leaves its output as memset filled it
new_salt(k) == IF k.random_err = 0 THEN k.salt ELSE FilledPerso.salt
new_chksum(k) ==
  IF k.derive_err = 0 THEN kl_derive_attest(cert_hash_of(new_salt(k)))
  ELSE FilledPerso.chksum
new_personality(k) ==
  [id |-> perso_st(new_salt(k), cert_hash_of(new_salt(k)), new_chksum(k)),
   rv |-> IF k.random_err = 0 /\ k.derive_err = 0
            THEN "EC_SUCCESS" ELSE "EC_ERROR_UNKNOWN"]

\* tock_get_personality into the static copy: k.allow and k.command are the
\* kernel's return codes; while a SET has not ended the driver hands out
\* the record being replaced or the one being written (k.fresh)
get_personality(p, k) ==
  IF k.allow < 0 \/ k.command < 0 THEN p
  ELSE [p EXCEPT !.static = IF p.setting.busy /\ k.fresh
                              THEN p.setting.id ELSE p.stored]

\* tock_set_personality(id): returns once the command is accepted, the
\* wait for the completion callback being commented out
tock_set_personality(p, id, k) ==
  IF k.subscribe < 0 THEN [p |-> p, rv |-> k.subscribe]
  ELSE IF k.allow < 0 THEN [p |-> p, rv |-> k.allow]
  ELSE IF k.command < 0 THEN [p |-> p, rv |-> k.command]
  ELSE [p |-> [p EXCEPT !.setting = [busy |-> TRUE, id |-> id]], rv |-> 0]

\* the driver ends the SET: the record is stored
set_done(p) == [p EXCEPT !.stored = p.setting.id, !.setting = NoSet]

\* setup_personality; k.get, k.check_err, k.new, k.set are the answers to
\* its calls
setup_new(p, k) ==
  IF new_personality(k.new).rv = "EC_SUCCESS"
    THEN tock_set_personality([p EXCEPT !.static = new_personality(k.new).id],
                              new_personality(k.new).id, k.set).p
    ELSE [p EXCEPT !.static = new_personality(k.new).id]
setup_personality(p, k) ==
  IF check_personality(get_personality(p, k.get).static, k.check_err) = "EC_SUCCESS"
    THEN get_personality(p, k.get)
    ELSE setup_new(get_personality(p, k.get), k)

\* a device whose personality is stored: the record made from salt 1
StoredSalt == [salt |-> 1, random_err |-> 0, derive_err |-> 0]
PersonalityStatics ==
  [stored |-> new_personality(StoredSalt).id, static |-> ZeroPerso,
   setting |-> NoSet]

(***************************************************************************)
(* Completion callbacks (subscribe, command, yield_for).  For every driver *)
(* the model keeps sub, the callback argument subscribed: "NULL", "live"   *)
(* (the completion flag of a binding call that has not returned) or "dead" *)
(* (the flag of a call that has returned); busy, an accepted operation the *)
(* driver has yet to end; and queued, the argument of a callback the       *)
(* kernel has queued ("none" when there is none) with the value it         *)
(* carries.  waiting is the driver whose binding call sits in yield_for,   *)
(* fired the last callback delivered.  Callbacks are delivered while the   *)
(* process yields.                                                         *)
(***************************************************************************)
Drivers == {"nvcounter", "personality", "u2f_receive"}
NoCallbacks ==
  [drv |-> [d \in Drivers |->
              [sub |-> "NULL", busy |-> FALSE, queued |-> "none", value |-> 0]],
   waiting |-> "none",
   fired |-> [driver |-> "none", args |-> "none"]]

\* subscribe(driver, ..., &flag) of a binding call that is running
subscribe(c, d) == [c EXCEPT !.drv[d].sub = "live"]
\* command(driver, ...) accepted
command(c, d) == [c EXCEPT !.drv[d].busy = TRUE]
\* the binding call of driver d returns: its completion flag is gone
returns_from(c, d) ==
  [c EXCEPT !.drv[d].sub = IF @ = "live" THEN "dead" ELSE @,
            !.drv[d].queued = IF @ = "live" THEN "dead" ELSE @,
            !.waiting = IF @ = d THEN "none" ELSE @]
\* the driver ends its operation and queues the callback subscribed
driver_done(c, d, value) ==
  [c EXCEPT !.drv[d].busy = FALSE,
            !.drv[d].queued = IF c.drv[d].sub = "NULL" THEN @ ELSE c.drv[d].sub,
            !.drv[d].value = value]
\* the kernel hands the queued callback of driver d to the process
delivered(c, d) ==
  [c EXCEPT !.drv[d].queued = "none",
            !.fired = [driver |-> d, args |-> c.drv[d].queued]]

(***************************************************************************)
(* NV counter (nvcounter_syscalls.c).  counter_global is "NULL" or "val",  *)
(* the variable of the caller; hw is the counter of the driver, i the      *)
(* number of calls nvcounter_ctest has made.                               *)
(***************************************************************************)
NvStatics ==
  [counter_global |-> "NULL", val |-> U32Zero, hw |-> 0, i |-> 0]

\* (unsigned int)counter
ToUnsigned(n) ==
  IF n < 0
    THEN U32(65535 - ((-n - 1) \div 65536), 65535 - ((-n - 1) % 65536))
    ELSE U32(n \div 65536, n % 65536)

\* tock_nvcounter_increment_done: the flag is set by the caller of this
\* operator; [counter_global, val] change as lines 37-41 say
tock_nvcounter_increment_done(nv, n) ==
  IF nv.counter_global # "NULL"
    THEN [nv EXCEPT !.val = ToUnsigned(n), !.counter_global = "NULL"]
    ELSE nv

\* tock_nvcounter_increment with counter_global set before the command
tock_nvcounter_increment_early(nv, c, k) ==
  IF k.subscribe < 0
    THEN [nv |-> nv, c |-> c, rv |-> Rv(k.subscribe), yields |-> FALSE]
  ELSE IF k.command < 0
    THEN [nv |-> [nv EXCEPT !.counter_global = "val"],
          c |-> returns_from(subscribe(c, "nvcounter"), "nvcounter"),
          rv |-> Rv(k.command), yields |-> FALSE]
  ELSE [nv |-> [nv EXCEPT !.counter_global = "val"],
        c |-> [command(subscribe(c, "nvcounter"), "nvcounter")
                 EXCEPT !.waiting = "nvcounter"],
        rv |-> Rv(0), yields |-> TRUE]

\* tock_nvcounter_increment(&val) up to its yield_for: [nv, c, rv, yields];
\* when yields is TRUE the call is in yield_for and rv is what it returns
\* once its flag is set
tock_nvcounter_increment(nv, c, k) ==
  IF k.subscribe < 0
    THEN [nv |-> nv, c |-> c, rv |-> Rv(k.subscribe), yields |-> FALSE]
  ELSE IF k.command < 0
    THEN [nv |-> nv,
          c |-> returns_from(subscribe(c, "nvcounter"), "nvcounter"),
          rv |-> Rv(k.command), yields |-> FALSE]
  ELSE [nv |-> [nv EXCEPT !.counter_global = "val"],
        c |-> [command(subscribe(c, "nvcounter"), "nvcounter")
                 EXCEPT !.waiting = "nvcounter"],
        rv |-> Rv(0), yields |-> TRUE]

(***************************************************************************)
(* Key ladder driver calls (h1b_kl_syscalls.c).  Pointers are "NULL" or    *)
(* the name of a buffer; held_input and held_output are the buffers the    *)
(* driver holds after the allows it accepted.                              *)
(***************************************************************************)
KlStatics ==
  [input_ptr |-> "NULL", output_ptr |-> "NULL",
   held_input |-> "NULL", held_output |-> "NULL"]

\* allow(): the driver takes the buffer when it answers TOCK_SUCCESS (0) and
\* keeps the one it had when it refuses
allow(held, buf, k) == IF k = 0 THEN buf ELSE held

\* [kl, rv, allowed]: allowed tells whether the allow system call was made
tock_h1b_kl_set_input(kl, input, k) ==
  IF input # kl.input_ptr
    THEN [kl |-> [kl EXCEPT !.input_ptr = input,
                            !.held_input = allow(@, input, k)],
          rv |-> Rv(k), allowed |-> TRUE]
    ELSE [kl |-> kl, rv |-> Rv(0), allowed |-> FALSE]

tock_h1b_kl_set_output(kl, output, k) ==
  IF output # kl.output_ptr
    THEN [kl |-> [kl EXCEPT !.output_ptr = output,
                            !.held_output = allow(@, output, k)],
          rv |-> Rv(k), allowed |-> TRUE]
    ELSE [kl |-> kl, rv |-> Rv(0), allowed |-> FALSE]

(***************************************************************************)
(* Functions exercised on their own                                        *)
(***************************************************************************)
\* no function under test has been called
NoCall == [fn |-> "none"]

\* a context fresh from DRBG_init, the statics of repetition_count_test as
\* the loader zeroes them, the statics of the AES shim as initialised
InitEngines ==
  /\ drbg = DRBG_init
  /\ rct = [last_clz |-> 0, last_clo |-> 0, __rct_count |-> 0]
  /\ aes = AesStatics
  /\ dcrypto = DcryptoStatics
  /\ nvcounter = NvStatics
  /\ callbacks = NoCallbacks
  /\ h1b_kl = KlStatics

\* and a device whose valid personality is stored
InitObjects ==
  /\ InitEngines
  /\ personality = PersonalityStatics

InitUnit ==
  /\ InitObjects
  /\ arg = NoCall
  /\ res = NoCall

\* main(): tock_u2f_receive delivers the frame f
Receive(f) ==
  /\ pc = "receive"
  /\ ~(f.cid = CID_BROADCAST /\ allocs >= MaxAlloc)
  /\ ~(MayRunHandler(f) /\ incrs >= MaxIncr)
  /\ frame' = f
  /\ pc' = "process"
  /\ UNCHANGED <<kat, fips_fatal, fips_fatal_lineno, led, next_CID, lock_CID,
                 timeout_CID, pending, rx_buffer, tx_buffer, U2F_sysinfo,
                 allocs, counter, incrs, touch_latch, reported, sent,
                 dispatched>>
  /\ UNCHANGED unit

RecvInitFrame == \E f \in InitFrames : Receive(f)
RecvContFrame == \E f \in ContFrames : Receive(f)

\* the program state becomes s
Returns(s) ==
  /\ fips_fatal' = s.fips_fatal
  /\ fips_fatal_lineno' = s.fips_fatal_lineno
  /\ led' = s.led
  /\ next_CID' = s.next_CID
  /\ lock_CID' = s.lock_CID
  /\ timeout_CID' = s.timeout_CID
  /\ pending' = s.pending
  /\ rx_buffer' = s.rx_buffer
  /\ tx_buffer' = s.tx_buffer
  /\ U2F_sysinfo' = s.U2F_sysinfo
  /\ allocs' = s.allocs
  /\ counter' = s.counter
  /\ incrs' = s.incrs
  /\ touch_latch' = s.touch_latch
  /\ sent' = s.sent
  /\ dispatched' = s.dispatched

\* the host has not seen a successful AUTHENTICATE yet
NoReport == <<>>

\* the counter the host reads in the response log to the request in rx with
\* dispatch d, if that is a successful AUTHENTICATE response it received
AuthReport(log, d, rx) ==
  IF /\ d.cmd = U2FHID_MSG % 128
     /\ ByteAt(rx, 0) = 0
     /\ ByteAt(rx, 1) = U2F_AUTHENTICATE
     /\ Len(log) = 1
     /\ log[1].ok
     /\ MSG_LEN(log[1].frame) > U2F_AUTHENTICATE_FIXED_LEN + SW_OFFSET
     /\ MSG_LEN(log[1].frame) <= INIT_DATA_SIZE
     /\ Bytes(log[1].frame.raw, 3 + MSG_LEN(log[1].frame) - SW_OFFSET, SW_OFFSET)
          = <<U2F_SW_NO_ERROR \div 256, U2F_SW_NO_ERROR % 256>>
    THEN U32(log[1].frame.raw[5] * 256 + log[1].frame.raw[6],
             log[1].frame.raw[7] * 256 + log[1].frame.raw[8])
    ELSE NoReport

\* the host keeps the counter of the last successful AUTHENTICATE
HostReads(log, d, rx) ==
  reported' = IF AuthReport(log, d, rx) # NoReport
                THEN AuthReport(log, d, rx) ELSE reported

\* main(): process_frame, i.e. one call of u2fhid_process_frame
ProcessFrame ==
  /\ pc = "process"
  /\ \E e \in Envs(frame) : Returns(u2fhid_process_frame(CallState, frame, e))
  /\ HostReads(sent', dispatched', rx_buffer')
  /\ pc' = "loop"
  /\ UNCHANGED <<kat, frame>>
  /\ UNCHANGED unit

\* main(): the loop goes back to tock_u2f_receive; the record of the call
\* that ended is dropped
LoopBack ==
  /\ pc = "loop"
  /\ pc' = "receive"
  /\ frame' = NoFrame
  /\ sent' = <<>>
  /\ dispatched' = NoDispatch
  /\ UNCHANGED <<kat, fips_fatal, fips_fatal_lineno, led, next_CID, lock_CID,
                 timeout_CID, pending, rx_buffer, tx_buffer, U2F_sysinfo, allocs,
                 counter, incrs, touch_latch, reported>>
  /\ UNCHANGED unit

\* the state when main() enters its receive loop after a boot in which
\* init_fips passed and no health test tripped, the allocator standing at cid
InitStatics(cid) ==
  /\ pc = "receive"
  /\ kat = NumKats + 1
  /\ fips_fatal = FIPS_INITIALIZED
  /\ fips_fatal_lineno = 0
  /\ led = FALSE
  /\ next_CID = cid
  /\ lock_CID = U32Zero
  /\ timeout_CID = U32Zero
  /\ pending = IdlePending
  /\ rx_buffer = ZeroBuffer
  /\ tx_buffer = ZeroBuffer
  /\ U2F_sysinfo = Zeros(SYSINFO_SIZE)
  /\ allocs = 0
  /\ counter = U32Zero
  /\ incrs = 0
  /\ touch_latch = POP_TOUCH_NO
  /\ reported = NoReport
  /\ frame = NoFrame
  /\ sent = <<>>
  /\ dispatched = NoDispatch

InitWith(cid) == InitStatics(cid) /\ InitUnit

\* next_CID as statically initialised
Init == InitWith(U32(0, 1))
Next == RecvInitFrame \/ RecvContFrame \/ ProcessFrame \/ LoopBack
Spec == Init /\ [][Next]_vars

(***************************************************************************)
(* Channel allocation: the same host, the allocator either fresh or two    *)
(* allocations short of rolling over                                       *)
(***************************************************************************)
InitCid == \E cid \in {U32(0, 1), U32(65535, 65533)} : InitWith(cid)
SpecCid == InitCid /\ [][Next]_vars

(***************************************************************************)
(* Long messages: one channel, a host that sends a request only when the   *)
(* transport is idle and sends its continuation frames in order            *)
(***************************************************************************)
LongLens == {0, 57, 58, 116, 117, MAX_BCNT, MAX_BCNT + 1, 65535}
LongInitFrames ==
  {MkInit(Chan(1), U2FHID_PING, n, Pattern(Fill(Chan(1)), 57)) : n \in LongLens}
LongContFrames == ContFramesOn({Chan(1)}, 0..38)

RecvLongInit ==
  \E f \in LongInitFrames : pending.cid = U32Zero /\ Receive(f)
RecvLongCont ==
  \E f \in LongContFrames :
    pending.cid = f.cid /\ pending.seqno = ContSeq(f) /\ Receive(f)

NextLong == RecvLongInit \/ RecvLongCont \/ ProcessFrame \/ LoopBack
SpecLong == Init /\ [][NextLong]_vars

(***************************************************************************)
(* Boot (main.c): init_fips test by test, device setup, then the receive   *)
(* loop with U2F requests                                                  *)
(***************************************************************************)
\* the program state becomes s, no frame is in flight
BootReturns(s) ==
  /\ fips_fatal' = s.fips_fatal
  /\ fips_fatal_lineno' = s.fips_fatal_lineno
  /\ led' = s.led
  /\ UNCHANGED <<next_CID, lock_CID, timeout_CID, pending, rx_buffer,
                 tx_buffer, U2F_sysinfo, allocs, counter, incrs, touch_latch,
                 reported, frame, sent, dispatched>>
  /\ UNCHANGED unit

\* init_fips: the outcome r = [s, failed] of test number kat
InitFipsKatDone(r) ==
  /\ BootReturns(r.s)
  /\ IF r.failed THEN pc' = "setup" /\ kat' = kat
     ELSE pc' = pc /\ kat' = kat + 1

\* init_fips: the next known-answer test runs
InitFipsKat ==
  /\ pc = "init_fips"
  /\ kat <= NumKats
  /\ \E pass \in BOOLEAN, trip \in BOOLEAN :
       /\ (trip => KatDrawsRandom(kat))
       /\ InitFipsKatDone(init_fips_kat(State, kat, pass, trip))

\* init_fips: every test passed
InitFipsComplete ==
  /\ pc = "init_fips"
  /\ kat = NumKats + 1
  /\ BootReturns(init_fips_complete(State))
  /\ pc' = "setup"
  /\ kat' = kat

\* check_device_setup: a personality that is missing or invalid is generated
\* anew, which draws health-tested random words (individual_keypair)
CheckDeviceSetup ==
  /\ pc = "setup"
  /\ \E stored \in BOOLEAN, trip \in BOOLEAN :
       /\ (trip => ~stored)
       /\ BootReturns(IF stored THEN State ELSE fips_rand(State, trip))
  /\ pc' = "receive"
  /\ kat' = kat

\* APDUs: VERSION (extended length 0), a wrong class byte, REGISTER with a
\* 64-byte body (69 bytes in all)
ApduVersion == <<0, U2F_VERSION, 0, 0, 0, 0, 0>>
ApduBadCla == <<1, U2F_VERSION, 0, 0, 0, 0, 0>>
ApduRegister == <<0, U2F_REGISTER, 0, 0, U2F_REGISTER_REQ_SIZE>> \o Pattern(1, 64)

BootFrames ==
  {MkInit(Chan(1), U2FHID_MSG, Len(a), a) : a \in {ApduVersion, ApduBadCla}}
  \cup {MkInit(Chan(1), U2FHID_MSG, Len(ApduRegister), SubSeq(ApduRegister, 1, 57)),
        MkCont(Chan(1), 0, SubSeq(ApduRegister, 58, Len(ApduRegister))),
        MkInit(Chan(1), U2FHID_SYSINFO, 0, <<>>),
        MkInit(Chan(1), U2FHID_WINK, 0, <<>>),
        MkInit(Chan(1), U2FHID_PROMPT, 0, <<>>)}

RecvBootFrame == \E f \in BootFrames : Receive(f)

\* the state at the start of main()
InitBoot ==
  /\ pc = "init_fips"
  /\ kat = 1
  /\ fips_fatal = FIPS_UNINITIALIZED
  /\ fips_fatal_lineno = 0
  /\ led = FALSE
  /\ next_CID = U32(0, 1)
  /\ lock_CID = U32Zero
  /\ timeout_CID = U32Zero
  /\ pending = IdlePending
  /\ rx_buffer = ZeroBuffer
  /\ tx_buffer = ZeroBuffer
  /\ U2F_sysinfo = Zeros(SYSINFO_SIZE)
  /\ allocs = 0
  /\ counter = U32Zero
  /\ incrs = 0
  /\ touch_latch = POP_TOUCH_NO
  /\ reported = NoReport
  /\ InitUnit
  /\ frame = NoFrame
  /\ sent = <<>>
  /\ dispatched = NoDispatch

NextBoot ==
  \/ InitFipsKat \/ InitFipsComplete \/ CheckDeviceSetup
  \/ RecvBootFrame \/ ProcessFrame \/ LoopBack
SpecBoot == InitBoot /\ [][NextBoot]_vars

(***************************************************************************)
(* U2F requests: one channel, a host that sends the frames of one request  *)
(* after the other, a user who may touch the button while the device waits *)
(* for a frame                                                             *)
(***************************************************************************)
Min(a, b) == IF a < b THEN a ELSE b

\* the frames that carry the APDU a
ApduInit(a) ==
  MkInit(Chan(1), U2FHID_MSG, Len(a), SubSeq(a, 1, Min(Len(a), INIT_DATA_SIZE)))
ApduCont(a, q) ==
  MkCont(Chan(1), q,
         SubSeq(a, INIT_DATA_SIZE + CONT_DATA_SIZE * q + 1,
                Min(Len(a), INIT_DATA_SIZE + CONT_DATA_SIZE * (q + 1))))
ApduConts(a) == (Len(a) + 1) \div CONT_DATA_SIZE

Chal == Pattern(1, 32)
AppId(k) == Pattern(33 + 64 * k, 32)

RegisterApdu(p1, appId) ==
  <<0, U2F_REGISTER, p1, 0, U2F_REGISTER_REQ_SIZE>> \o Chal \o appId
AuthenticateApdu(p1, appId, kh) ==
  <<0, U2F_AUTHENTICATE, p1, 0, U2F_AUTHENTICATE_REQ_SIZE>> \o Chal \o appId
    \o <<KH_LEN>> \o kh

\* the outcomes of a handler run in this scenario
U2fOutcomes ==
  {Outcome(0, "none", 9, 64, 200), Outcome(4, "none", 0, 64, 200),
   Outcome(0, "trng", 9, 64, 200), Outcome(0, "ecdsa", 9, 64, 200)}

\* the key handle REGISTER returns for appId when the handler run is h
RegisteredKh(p1, appId, h) ==
  obfuscate_kh(register_buf(appId, kl_random(h), p1, h), AES_ENCRYPT_MODE)

KhOf(k) == RegisteredKh(0, AppId(k), Outcome(0, "none", 9, 64, 200))

\* requests of every kind: VERSION, a wrong class byte, an unknown
\* instruction, wrong lengths, REGISTER and AUTHENTICATE with a key handle
\* that REGISTER returns
U2fApdus ==
  {<<>>, ApduVersion, ApduBadCla, <<0, 17, 0, 0, 0, 0, 0>>,
   <<0, U2F_VERSION, 0, 0, 1, 0>>, <<0, U2F_REGISTER, 0, 0, 2, 0, 0>>,
   RegisterApdu(0, AppId(0)),
   AuthenticateApdu(G2F_TUP + G2F_CONSUME, AppId(0), KhOf(0))}

\* the request whose frames the host is sending
Sending(a) ==
  /\ pending.cid = Chan(1)
  /\ pending.bcnt = Len(a)
  /\ Piece(rx_buffer, 1) = InitData(ApduInit(a))

RecvApduInit(apdus) ==
  \E a \in apdus : pending.cid = U32Zero /\ Receive(ApduInit(a))
RecvApduCont(apdus) ==
  \E a \in apdus :
    /\ Sending(a)
    /\ pending.seqno < ApduConts(a)
    /\ Receive(ApduCont(a, pending.seqno))

\* one call of u2fhid_process_frame; the USB driver takes every frame
ProcessApdu ==
  /\ pc = "process"
  /\ \E h \in IF MayRunHandler(frame) THEN U2fOutcomes ELSE {NoOutcome} :
       Returns(u2fhid_process_frame(
                 CallState, frame,
                 [failAt |-> 0, h |-> h, failK |-> 0, trip |-> FALSE]))
  /\ HostReads(sent', dispatched', rx_buffer')
  /\ pc' = "loop"
  /\ UNCHANGED <<kat, frame>>
  /\ UNCHANGED unit

\* pop_falling_callback: the button is touched while main() waits for a frame
PopFallingCallback ==
  /\ pc = "receive"
  /\ touch_latch' = POP_TOUCH_YES
  /\ UNCHANGED <<pc, kat, fips_fatal, fips_fatal_lineno, led, next_CID,
                 lock_CID, timeout_CID, pending, rx_buffer, tx_buffer,
                 U2F_sysinfo, allocs, counter, incrs, reported, frame, sent,
                 dispatched>>
  /\ UNCHANGED unit

NextU2f ==
  \/ RecvApduInit(U2fApdus) \/ RecvApduCont(U2fApdus)
  \/ ProcessApdu \/ LoopBack
SpecU2f == Init /\ [][NextU2f]_vars

(***************************************************************************)
(* User presence: the same host sending REGISTER and AUTHENTICATE requests *)
(* that ask for, consume or only probe the touch, and a user who may touch *)
(* the button                                                              *)
(***************************************************************************)
PresenceApdus ==
  {RegisterApdu(p1, AppId(0)) : p1 \in {0, G2F_TUP, G2F_TUP + G2F_CONSUME}}
  \cup {AuthenticateApdu(p1, AppId(0), KhOf(0)) :
          p1 \in {G2F_TUP + G2F_CONSUME, G2F_CHECK + G2F_TUP + G2F_CONSUME}}
  \cup {AuthenticateApdu(G2F_CHECK, AppId(1), KhOf(0))}

NextPresence ==
  \/ RecvApduInit(PresenceApdus) \/ RecvApduCont(PresenceApdus)
  \/ ProcessApdu \/ LoopBack \/ PopFallingCallback
SpecPresence == Init /\ [][NextPresence]_vars

(***************************************************************************)
(* The counter over the life of the device: boot, REGISTER and             *)
(* AUTHENTICATE requests, and power cycles, after which main() starts      *)
(* again with its statics as the image initialises them                    *)
(***************************************************************************)
CounterApdus ==
  {RegisterApdu(0, AppId(0)),
   AuthenticateApdu(G2F_TUP + G2F_CONSUME, AppId(0), KhOf(0)),
   AuthenticateApdu(G2F_CHECK, AppId(0), KhOf(0))}

\* the device loses power while it waits for a frame and boots again
Reboot ==
  /\ pc = "receive"
  /\ pc' = "init_fips"
  /\ kat' = 1
  /\ fips_fatal' = FIPS_UNINITIALIZED
  /\ fips_fatal_lineno' = 0
  /\ led' = FALSE
  /\ next_CID' = U32(0, 1)
  /\ lock_CID' = U32Zero
  /\ timeout_CID' = U32Zero
  /\ pending' = IdlePending
  /\ rx_buffer' = ZeroBuffer
  /\ tx_buffer' = ZeroBuffer
  /\ U2F_sysinfo' = Zeros(SYSINFO_SIZE)
  /\ counter' = U32Zero
  /\ incrs' = 0
  /\ touch_latch' = POP_TOUCH_NO
  /\ UNCHANGED <<allocs, reported, frame, sent, dispatched>>
  /\ UNCHANGED unit

NextCounter ==
  \/ InitFipsKat \/ InitFipsComplete \/ CheckDeviceSetup
  \/ RecvApduInit(CounterApdus) \/ RecvApduCont(CounterApdus)
  \/ ProcessApdu \/ LoopBack \/ Reboot
SpecCounter == InitBoot /\ [][NextCounter]_vars

(***************************************************************************)
(* Key handles on their own: REGISTER wraps an application id and a fresh  *)
(* origin seed into a key handle, the host may change one byte of its      *)
(* copy, and AUTHENTICATE unwraps what the host presents.  The request is  *)
(* handed to apdu_rcv whole, as u2fhid_response_msg does once the last     *)
(* frame is in.                                                            *)
(***************************************************************************)
\* n bytes of a message buffer from offset off
BufData(buf, off, n) == [i \in 1..n |-> ByteAt(buf, off + i - 1)]

\* the application ids, P1 bytes and handler runs REGISTER is tried with
KhAppIds == {Zeros(32), Pattern(33, 32), Pattern(240, 32)}
KhP1s == {G2F_TUP + G2F_CONSUME, G2F_ATTEST + G2F_TUP}
KhOutcomes ==
  {Outcome(0, "none", 9, sd, 200) : sd \in {0, 250}}
KhArgs ==
  {[fn |-> "u2f_register", appId |-> a, p1 |-> p, h |-> h] :
     a \in KhAppIds, p \in KhP1s, h \in KhOutcomes}
\* what the host adds to the byte it changes
KhDeltas == {1, 128}
\* the handler run of AUTHENTICATE: kl_random is not called, its bytes differ
KhAuthOutcome == Outcome(0, "none", 9, 7, 7)

\* apdu_rcv on the request a: [s, n]
ApduRcv(a, h) ==
  apdu_rcv([CallState EXCEPT !.rx_buffer = MemCpy(ZeroBuffer, 0, a, Len(a))],
           Len(a), h)

\* the status word that ends a response of n bytes
ReplySw(r) ==
  ByteAt(r.s.tx_buffer, r.n - 2) * 256 + ByteAt(r.s.tx_buffer, r.n - 1)

\* what the host keeps of the REGISTER response r
RegisterReply(r) ==
  [fn |-> "u2f_register", sw |-> ReplySw(r),
   kh |-> BufData(r.s.tx_buffer, U2F_REGISTER_FIXED_LEN - KH_LEN, KH_LEN),
   i |-> 0]

\* what the host keeps of the AUTHENTICATE response r to the handle changed
\* at byte i (0: not changed)
AuthenticateReply(r, i) ==
  [fn |-> "u2f_authenticate", sw |-> ReplySw(r), i |-> i,
   sig |-> BufData(r.s.tx_buffer, U2F_AUTHENTICATE_FIXED_LEN,
                   r.n - SW_OFFSET - U2F_AUTHENTICATE_FIXED_LEN)]

InitKh ==
  /\ InitStatics(U32(0, 1))
  /\ InitObjects
  /\ arg \in KhArgs
  /\ res = NoCall

\* REGISTER for arg.appId
KhRegister ==
  /\ res.fn = "none"
  /\ \E r \in {ApduRcv(RegisterApdu(arg.p1, arg.appId), arg.h)} :
       Returns(r.s) /\ res' = RegisterReply(r)
  /\ UNCHANGED <<pc, kat, reported, frame, dcrypto, personality, drbg, rct, aes, arg,
                 nvcounter, callbacks, h1b_kl>>

\* the host changes byte i of its copy of the key handle
KhChange ==
  /\ res.fn = "u2f_register"
  /\ res.i = 0
  /\ \E i \in 1..KH_LEN, x \in KhDeltas :
       res' = [res EXCEPT !.kh[i] = (@ + x) % 256, !.i = i]
  /\ UNCHANGED <<pc, kat, fips_fatal, fips_fatal_lineno, led, next_CID,
                 lock_CID, timeout_CID, pending, rx_buffer, tx_buffer,
                 U2F_sysinfo, allocs, counter, incrs, touch_latch, reported,
                 frame, dcrypto, personality, sent, dispatched, drbg, rct, aes, arg,
                 nvcounter, callbacks, h1b_kl>>

\* AUTHENTICATE for arg.appId with the host's copy of the key handle
KhAuthenticate ==
  /\ res.fn = "u2f_register"
  /\ \E r \in {ApduRcv(AuthenticateApdu(G2F_TUP + G2F_CONSUME, arg.appId,
                                         res.kh), KhAuthOutcome)} :
       Returns(r.s) /\ res' = AuthenticateReply(r, res.i)
  /\ UNCHANGED <<pc, kat, reported, frame, dcrypto, personality, drbg, rct, aes, arg,
                 nvcounter, callbacks, h1b_kl>>

NextKh == KhRegister \/ KhChange \/ KhAuthenticate
SpecKh == InitKh /\ [][NextKh]_vars

(***************************************************************************)
(* The DRBG on its own: one context, initialised, then any sequence of     *)
(* DRBG_generate, DRBG_reseed and DRBG_init calls.  res.before counts the  *)
(* DRBG_generate calls that returned 0 since the last DRBG_init or         *)
(* DRBG_reseed, not counting the call res describes.                       *)
(***************************************************************************)
\* the lengths asked for: a digest, the longest output allowed, one more
DrbgOutLens == {32, 937, 938}
\* without and with additional input
DrbgInLens == {0, 32}

\* the successful DRBG_generate calls since the last seeding, res included
Generated ==
  IF res.fn = "DRBG_generate"
    THEN res.before + (IF res.rv = 0 THEN 1 ELSE 0)
    ELSE 0

DrbgGenerate ==
  /\ \E output_len \in DrbgOutLens, input_len \in DrbgInLens :
       /\ arg' = [fn |-> "DRBG_generate", output_len |-> output_len,
                  input_len |-> input_len]
       /\ drbg' = DRBG_generate(drbg, output_len, input_len).ctx
       /\ res' = [fn |-> "DRBG_generate",
                  rv |-> DRBG_generate(drbg, output_len, input_len).rv,
                  before |-> Generated]
  /\ UNCHANGED <<pc, kat, fips_fatal, fips_fatal_lineno, led, next_CID,
                 lock_CID, timeout_CID, pending, rx_buffer, tx_buffer,
                 U2F_sysinfo, allocs, counter, incrs, touch_latch, reported,
                 frame, dcrypto, personality, sent, dispatched, rct, aes,
                 nvcounter, callbacks, h1b_kl>>

DrbgReseed ==
  /\ arg' = [fn |-> "DRBG_reseed"]
  /\ drbg' = DRBG_reseed(drbg)
  /\ res' = [fn |-> "DRBG_reseed"]
  /\ UNCHANGED <<pc, kat, fips_fatal, fips_fatal_lineno, led, next_CID,
                 lock_CID, timeout_CID, pending, rx_buffer, tx_buffer,
                 U2F_sysinfo, allocs, counter, incrs, touch_latch, reported,
                 frame, dcrypto, personality, sent, dispatched, rct, aes,
                 nvcounter, callbacks, h1b_kl>>

DrbgInit ==
  /\ arg' = [fn |-> "DRBG_init"]
  /\ drbg' = DRBG_init
  /\ res' = [fn |-> "DRBG_init"]
  /\ UNCHANGED <<pc, kat, fips_fatal, fips_fatal_lineno, led, next_CID,
                 lock_CID, timeout_CID, pending, rx_buffer, tx_buffer,
                 U2F_sysinfo, allocs, counter, incrs, touch_latch, reported,
                 frame, dcrypto, personality, sent, dispatched, rct, aes,
                 nvcounter, callbacks, h1b_kl>>

NextDrbg == DrbgGenerate \/ DrbgReseed \/ DrbgInit
SpecDrbg == Init /\ [][NextDrbg]_vars

(***************************************************************************)
(* Repetition-count test (fips_health_tests.c)                             *)
(*                                                                         *)
(* A word is a uint32 <<hi16, lo16>>; bit 0 is its least significant bit.  *)
(* __builtin_clz and __builtin_ctz are undefined for the argument 0: u is  *)
(* the value such a call yields.                                           *)
(***************************************************************************)
RCT_CUTOFF_BITS == 41
RCT_CUTOFF_WORDS == (RCT_CUTOFF_BITS + 31) \div 32

Bit(x, i) == ((IF i < 16 THEN x[2] ELSE x[1]) \div Pow2(i % 16)) % 2
\* ~x
U32Not(x) == U32(65535 - x[1], 65535 - x[2])

__builtin_clz(x, u) ==
  IF x = U32Zero THEN u
  ELSE 31 - (CHOOSE i \in 0..31 :
               Bit(x, i) = 1 /\ \A j \in (i + 1)..31 : Bit(x, j) = 0)
__builtin_ctz(x, u) ==
  IF x = U32Zero THEN u
  ELSE CHOOSE i \in 0..31 : Bit(x, i) = 1 /\ \A j \in 0..(i - 1) : Bit(x, j) = 0

\* the values an undefined count may have: 32, which the count-leading-zeros
\* instruction gives, and the ends of the range the builtins are defined on
UndefCounts == {0, 31, 32}

\* lines 38 and 39: the zero run, then the one run, against the cutoff
rct_throws(s, last, trail, line) ==
  IF trail + last >= RCT_CUTOFF_BITS
    THEN throw_fips_err(s, FIPS_FATAL_TRNG, line)
    ELSE s

\* lines 41 and 42: clz + ((!!rnd - 1) & last_clz)
rct_last(lead, rnd, last) == lead + (IF rnd = U32Zero THEN last ELSE 0)

\* [s, rct]: the state and the statics after repetition_count_test(rnd);
\* u.clz and u.ctz are the counts of the calls whose argument is 0
repetition_count_test(s, r, rnd, u) ==
  [s |-> rct_throws(
           rct_throws(s, r.last_clz, __builtin_ctz(rnd, u.ctz), 38),
           r.last_clo, __builtin_ctz(U32Not(rnd), u.ctz), 39),
   rct |-> [last_clz |-> rct_last(__builtin_clz(rnd, u.clz), rnd, r.last_clz),
            last_clo |-> rct_last(__builtin_clz(U32Not(rnd), u.clz),
                                  U32Not(rnd), r.last_clo),
            __rct_count |-> IF r.__rct_count < RCT_CUTOFF_WORDS
                              THEN r.__rct_count + 1 ELSE r.__rct_count]]

\* repetition_count_test(rnd) calls throw_fips_err
rct_raises(r, rnd, u) ==
  \/ __builtin_ctz(rnd, u.ctz) + r.last_clz >= RCT_CUTOFF_BITS
  \/ __builtin_ctz(U32Not(rnd), u.ctz) + r.last_clo >= RCT_CUTOFF_BITS

(***************************************************************************)
(* The repetition-count test on its own: raw words are fed one by one.     *)
(* res.bits is the stream fed so far, least significant bit of each word   *)
(* first, the word of the last call at its end.                            *)
(***************************************************************************)
\* all zeros, all ones, 9 and 8 leading zeros, 9 leading ones, 1 trailing
\* zero, 1 trailing one
RctWords ==
  {U32Zero, U32(65535, 65535), U32(127, 65535), U32(255, 65535),
   U32(65408, 0), U32(65535, 65534), U32(0, 1)}

WordBits(x) == [i \in 1..32 |-> Bit(x, i - 1)]
Streamed == IF res.fn = "repetition_count_test" THEN res.bits ELSE <<>>

\* the counts of the calls of rnd whose argument is 0, if it makes any
Undefined(rnd) ==
  IF rnd = U32Zero \/ U32Not(rnd) = U32Zero
    THEN {[clz |-> uz, ctz |-> ut] : uz \in UndefCounts, ut \in UndefCounts}
    ELSE {[clz |-> 32, ctz |-> 32]}

RctWord ==
  /\ Len(Streamed) < 32 * MaxWords
  /\ \E rnd \in RctWords :
       \E u \in Undefined(rnd) :
         /\ arg' = [fn |-> "repetition_count_test", rnd |-> rnd]
         /\ Returns(repetition_count_test(State, rct, rnd, u).s)
         /\ rct' = repetition_count_test(State, rct, rnd, u).rct
         /\ res' = [fn |-> "repetition_count_test",
                    raised |-> rct_raises(rct, rnd, u),
                    bits |-> Streamed \o WordBits(rnd)]
  /\ UNCHANGED <<pc, kat, reported, frame, dcrypto, personality, drbg, aes,
                 nvcounter, callbacks, h1b_kl>>

NextRct == RctWord
SpecRct == Init /\ [][NextRct]_vars

(***************************************************************************)
(* DER lengths (asn1.c): asn1_len on its own, for every size that fits 16  *)
(* bits.  The result is [p, rv]: the bytes written at p and the value      *)
(* returned.                                                               *)
(***************************************************************************)
\* asn1_len with the one-byte form taken for 128 as well
asn1_len_128(size) ==
  IF size <= 128 THEN [p |-> <<size % 256>>, rv |-> 1]
  ELSE IF size < 256 THEN [p |-> <<129, size % 256>>, rv |-> 2]
  ELSE [p |-> <<130, (size \div 256) % 256, size % 256>>, rv |-> 3]

asn1_len(size) ==
  IF size < 128 THEN [p |-> <<size % 256>>, rv |-> 1]
  ELSE IF size < 256 THEN [p |-> <<129, size % 256>>, rv |-> 2]
  ELSE [p |-> <<130, (size \div 256) % 256, size % 256>>, rv |-> 3]

Asn1Sizes == 0..65535

InitAsn1 ==
  /\ InitStatics(U32(0, 1))
  /\ InitObjects
  /\ arg \in {[fn |-> "asn1_len", size |-> n] : n \in Asn1Sizes}
  /\ res = NoCall

Asn1Len ==
  /\ res.fn = "none"
  /\ res' = [fn |-> "asn1_len", p |-> asn1_len(arg.size).p,
             rv |-> asn1_len(arg.size).rv]
  /\ UNCHANGED <<pc, kat, fips_fatal, fips_fatal_lineno, led, next_CID,
                 lock_CID, timeout_CID, pending, rx_buffer, tx_buffer,
                 U2F_sysinfo, allocs, counter, incrs, touch_latch, reported,
                 frame, dcrypto, personality, sent, dispatched, drbg, rct, aes, arg,
                 nvcounter, callbacks, h1b_kl>>

NextAsn1 == Asn1Len
SpecAsn1 == InitAsn1 /\ [][NextAsn1]_vars

(***************************************************************************)
(* The AES shim on its own: any sequence of fips_aes_init calls.           *)
(* res.before is the statics and key the call found.                       *)
(***************************************************************************)
\* two keys, told apart by their first byte
AesKeys == {Pattern(1, 32), Pattern(2, 32)}
\* key lengths in bits: none, AES-128, one bit more, AES-192, AES-256
AesKeyLens == {0, 128, 129, 192, 256}
\* the modes of enum AES_cipher_mode and a value outside of it
AesCipherModes ==
  {AES_CIPHER_MODE_ECB, AES_CIPHER_MODE_CTR, AES_CIPHER_MODE_CBC,
   AES_CIPHER_MODE_GCM, 7}

AesInit ==
  /\ \E key \in AesKeys, key_len \in AesKeyLens, c_mode \in AesCipherModes,
        e_mode \in {AES_DECRYPT_MODE, AES_ENCRYPT_MODE} :
       /\ arg' = [fn |-> "fips_aes_init", key |-> key, key_len |-> key_len,
                  c_mode |-> c_mode, e_mode |-> e_mode]
       /\ aes' = fips_aes_init(aes, key, key_len, <<>>, c_mode, e_mode).aes
       /\ res' = [fn |-> "fips_aes_init", before |-> aes,
                  rv |-> fips_aes_init(aes, key, key_len, <<>>, c_mode,
                                       e_mode).rv]
  /\ UNCHANGED <<pc, kat, fips_fatal, fips_fatal_lineno, led, next_CID,
                 lock_CID, timeout_CID, pending, rx_buffer, tx_buffer,
                 U2F_sysinfo, allocs, counter, incrs, touch_latch, reported,
                 frame, dcrypto, personality, sent, dispatched, drbg, rct,
                 nvcounter, callbacks, h1b_kl>>

NextAes == AesInit
SpecAes == Init /\ [][NextAes]_vars

(***************************************************************************)
(* AES-CMAC (cmac.c).  Functions return [aes, rv, ...]: the statics of the *)
(* AES shim afterwards and the value returned.                             *)
(***************************************************************************)
\* fips_aes_block in the modes CMAC and the key handles use; other modes
\* are refused
aes_shim_block(a, in) ==
  IF a.cipher_mode = AES_CIPHER_MODE_ECB
    THEN [rv |-> 1,
          out |-> IF a.encrypt_mode = AES_ENCRYPT_MODE
                    THEN aes_encrypt(a.key, in) ELSE aes_decrypt(a.key, in)]
  ELSE IF a.cipher_mode = AES_CIPHER_MODE_CBC
    THEN [rv |-> 1,
          out |-> fips_aes_block(a.key, a.initialization_vector,
                                 a.encrypt_mode, in)]
  ELSE [rv |-> 0, out |-> in]

\* _ls1: one bit to the left over the 16 bytes, 0x87 into the last byte
\* when a bit falls out
_ls1(in) ==
  [i \in 1..16 |->
     LET sh == (2 * in[i] + (IF i < 16 THEN in[i + 1] \div 128 ELSE 0)) % 256
     IN IF i = 16 /\ in[1] >= 128 THEN ByteXor(sh, 135) ELSE sh]

\* the accumulator with the n data bytes at offset i xored in
cmac_absorb(accu, data, i, n) ==
  [j \in 1..16 |-> IF j <= n THEN ByteXor(accu[j], data[i + j]) ELSE accu[j]]

\* lines 72-79: a short block is padded and takes K2, a full last block K1
cmac_finish(accu, n, last, K1, K2) ==
  IF n # 16
    THEN XorBytes([accu EXCEPT ![n + 1] = ByteXor(@, 128)], K2)
  ELSE IF last THEN XorBytes(accu, K1)
  ELSE accu

\* the loop of fips_cmac_generate from offset i on
RECURSIVE cmac_blocks(_, _, _, _, _, _)
cmac_blocks(a, accu, data, i, K1, K2) ==
  IF i >= Len(data) THEN accu
  ELSE cmac_blocks(
         a,
         aes_shim_block(
           a, cmac_finish(
                cmac_absorb(accu, data, i, Min(16, Len(data) - i)),
                Min(16, Len(data) - i), i + 16 = Len(data), K1, K2)).out,
         data, i + 16, K1, K2)

\* fips_cmac_generate once fips_aes_init has set the key: K1, K2, the loop
cmac_keyed(a, data) ==
  [aes |-> a, rv |-> "EC_SUCCESS",
   tag |-> cmac_blocks(a, Zeros(16), data, 0,
                       _ls1(aes_shim_block(a, Zeros(16)).out),
                       _ls1(_ls1(aes_shim_block(a, Zeros(16)).out)))]

cmac_after_init(r, data) ==
  IF r.rv = 0 THEN [aes |-> r.aes, rv |-> "EC_ERROR_UNKNOWN", tag |-> <<>>]
  ELSE cmac_keyed(r.aes, data)

fips_cmac_generate(a, key, data) ==
  cmac_after_init(
    fips_aes_init(a, key, 128, <<>>, AES_CIPHER_MODE_ECB, AES_ENCRYPT_MODE),
    data)

\* lines 99-102: the first mac_len bytes compared
cmac_compare(g, mac, mac_len) ==
  IF g.rv # "EC_SUCCESS" THEN [aes |-> g.aes, rv |-> "EC_ERROR_UNKNOWN"]
  ELSE [aes |-> g.aes,
        rv |-> IF \A i \in 1..mac_len : g.tag[i] = mac[i]
                 THEN "EC_SUCCESS" ELSE "EC_ERROR_UNKNOWN"]

fips_cmac_verify(a, key, data, mac, mac_len) ==
  cmac_compare(fips_cmac_generate(a, key, data), mac, mac_len)

(***************************************************************************)
(* CMAC on its own: a tag is generated for a key and a message, then       *)
(* verified as it is or with one of its 128 bits changed.                  *)
(***************************************************************************)
\* message lengths: empty, short, one byte short of a block, whole blocks,
\* a block and a byte, two blocks and a byte
CmacLens == {0, 1, 15, 16, 17, 32, 33}
CmacArgs ==
  {[fn |-> "fips_cmac_generate", key |-> Pattern(k, 16),
    data |-> Pattern(d, n)] : k \in {1, 200}, d \in {0, 250}, n \in CmacLens}

\* the tag with bit b (1..128) changed; 0 leaves it alone
FlipBit(tag, b) ==
  IF b = 0 THEN tag
  ELSE [tag EXCEPT ![(b + 7) \div 8] = ByteXor(@, Pow2((b - 1) % 8))]

InitCmac ==
  /\ InitStatics(U32(0, 1))
  /\ InitObjects
  /\ arg \in CmacArgs
  /\ res = NoCall

CmacGenerate ==
  /\ res.fn = "none"
  /\ aes' = fips_cmac_generate(aes, arg.key, arg.data).aes
  /\ res' = [fn |-> "fips_cmac_generate",
             rv |-> fips_cmac_generate(aes, arg.key, arg.data).rv,
             tag |-> fips_cmac_generate(aes, arg.key, arg.data).tag]
  /\ UNCHANGED <<pc, kat, fips_fatal, fips_fatal_lineno, led, next_CID,
                 lock_CID, timeout_CID, pending, rx_buffer, tx_buffer,
                 U2F_sysinfo, allocs, counter, incrs, touch_latch, reported,
                 frame, dcrypto, personality, sent, dispatched, drbg, rct, arg,
                 nvcounter, callbacks, h1b_kl>>

CmacVerify ==
  /\ res.fn = "fips_cmac_generate"
  /\ res.rv = "EC_SUCCESS"
  /\ \E b \in 0..128 :
       /\ aes' = fips_cmac_verify(aes, arg.key, arg.data,
                                  FlipBit(res.tag, b), 16).aes
       /\ res' = [fn |-> "fips_cmac_verify", bit |-> b,
                  rv |-> fips_cmac_verify(aes, arg.key, arg.data,
                                          FlipBit(res.tag, b), 16).rv]
  /\ UNCHANGED <<pc, kat, fips_fatal, fips_fatal_lineno, led, next_CID,
                 lock_CID, timeout_CID, pending, rx_buffer, tx_buffer,
                 U2F_sysinfo, allocs, counter, incrs, touch_latch, reported,
                 frame, dcrypto, personality, sent, dispatched, drbg, rct, arg,
                 nvcounter, callbacks, h1b_kl>>

NextCmac == CmacGenerate \/ CmacVerify
SpecCmac == InitCmac /\ [][NextCmac]_vars

(***************************************************************************)
(* tock_dcrypto_run on its own: any programs run one after another, the    *)
(* statics last_error and last_fault kept between the runs                 *)
(***************************************************************************)
\* return codes of subscribe, allow and command: success or a kernel error
KernelRets == {-1, 0}
\* what the completion callback reports: no error or an error, and no
\* fault or one of the fault codes of dcrypto_syscalls.c (stack overflow,
\* unknown)
DcryptoErrors == {0, 1}
DcryptoFaults == {0, 2, TOCK_DCRYPTO_FAULT_UNKNOWN}
DcryptoAnswers ==
  [subscribe : KernelRets, allow_data : KernelRets, allow_prog : KernelRets,
   command : KernelRets, error : DcryptoErrors, fault : DcryptoFaults]

\* the kernel accepted every call of the run
Accepted(k) ==
  k.subscribe >= 0 /\ k.allow_data >= 0 /\ k.allow_prog >= 0 /\ k.command >= 0

DcryptoRun ==
  /\ \E k \in DcryptoAnswers :
       /\ dcrypto' = tock_dcrypto_run(dcrypto, k).d
       /\ arg' = [fn |-> "tock_dcrypto_run", k |-> k]
       /\ res' = [fn |-> "tock_dcrypto_run", rv |-> tock_dcrypto_run(dcrypto, k).rv]
  /\ UNCHANGED <<program, drbg, rct, aes, personality,
                 nvcounter, callbacks, h1b_kl>>

NextDcrypto == DcryptoRun
SpecDcrypto == Init /\ [][NextDcrypto]_vars

(***************************************************************************)
(* The personality on its own: the device boots with some stored record,   *)
(* setup_personality runs once, then the token reads the record (as        *)
(* REGISTER and AUTHENTICATE do) while the driver ends a SET when it will  *)
(***************************************************************************)
\* stored at boot: a valid record, erased flash, zeroes, a record whose
\* chksum does not match
StoredRecords ==
  {new_personality(StoredSalt).id, FilledPerso, ZeroPerso,
   perso_st(1, cert_hash_of(1), 0)}
GetAnswers == [allow : KernelRets, command : KernelRets, fresh : BOOLEAN]
NewAnswers == [salt : {2, 3}, random_err : {0, 1}, derive_err : {0, 1}]
SetAnswers == [subscribe : KernelRets, allow : KernelRets, command : KernelRets]
SetupAnswers ==
  [get : GetAnswers, check_err : {0, 1}, new : NewAnswers, set : SetAnswers]

InitPerso ==
  /\ InitStatics(U32(0, 1))
  /\ InitEngines
  /\ personality \in {[stored |-> r, static |-> ZeroPerso, setting |-> NoSet] :
                        r \in StoredRecords}
  /\ arg = NoCall
  /\ res = NoCall

\* check_device_setup calls setup_personality
SetupPersonality ==
  /\ arg.fn = "none"
  /\ \E k \in SetupAnswers :
       /\ personality' = setup_personality(personality, k)
       /\ arg' = [fn |-> "setup_personality", k |-> k,
                  found |-> check_personality(
                              get_personality(personality, k.get).static,
                              k.check_err)]
  /\ UNCHANGED <<program, drbg, rct, aes, dcrypto, res,
                 nvcounter, callbacks, h1b_kl>>

\* a later get_personality
GetPersonality ==
  /\ arg.fn = "setup_personality"
  /\ \E k \in GetAnswers :
       /\ personality' = get_personality(personality, k)
       /\ res' = [fn |-> "get_personality",
                  id |-> get_personality(personality, k).static]
  /\ UNCHANGED <<program, drbg, rct, aes, dcrypto, arg,
                 nvcounter, callbacks, h1b_kl>>

\* the driver ends the SET
PersonalitySetDone ==
  /\ personality.setting.busy
  /\ personality' = set_done(personality)
  /\ UNCHANGED <<program, drbg, rct, aes, dcrypto, arg, res,
                 nvcounter, callbacks, h1b_kl>>

NextPerso == SetupPersonality \/ GetPersonality \/ PersonalitySetDone
SpecPerso == InitPerso /\ [][NextPerso]_vars

(***************************************************************************)
(* REGISTER on its own: requests handed to apdu_rcv one after another,     *)
(* each handler run failing at some step or at none, the user touching the *)
(* button in between                                                       *)
(***************************************************************************)
\* the handler run: no failure, a failure at each step of u2f_register
\* (U2F_SW_WTF + 1 .. 5), a health test or consistency test that throws
RegOutcomes ==
  {Outcome(f, "none", 9, 64, 200) : f \in 0..5}
  \cup {Outcome(0, t, 9, 64, 200) : t \in {"trng", "ecdsa"}}
RegApdus ==
  {RegisterApdu(p1, Zeros(32)) :
     p1 \in {G2F_ATTEST, G2F_TUP + G2F_CONSUME}}
  \cup {<<0, U2F_REGISTER, 0, 0, 2, 0, 0>>}

\* what the claim says a failed REGISTER leaves alone
Depended ==
  [counter |-> counter, touch_latch |-> touch_latch,
   personality |-> personality, lock_CID |-> lock_CID, pending |-> pending]

RegisterRequest ==
  /\ incrs < MaxIncr
  /\ \E a \in RegApdus, h \in RegOutcomes :
       /\ arg' = [fn |-> "u2f_register", h |-> h, p1 |-> a[3]]
       /\ \E r \in {ApduRcv(a, h)} :
            /\ Returns(r.s)
            /\ res' = [fn |-> "u2f_register", sw |-> ReplySw(r),
                       before |-> Depended]
  /\ UNCHANGED <<pc, kat, reported, frame, drbg, rct, aes, dcrypto, personality,
                 nvcounter, callbacks, h1b_kl>>

\* tock_pop_falling_callback between two requests
UserTouch ==
  /\ touch_latch' = POP_TOUCH_YES
  /\ arg' = [fn |-> "tock_pop_falling_callback"]
  /\ res' = [fn |-> "tock_pop_falling_callback"]
  /\ UNCHANGED <<pc, kat, fips_fatal, fips_fatal_lineno, led, next_CID,
                 lock_CID, timeout_CID, pending, rx_buffer, tx_buffer,
                 U2F_sysinfo, allocs, counter, incrs, reported, frame, sent,
                 dispatched, drbg, rct, aes, dcrypto, personality,
                 nvcounter, callbacks, h1b_kl>>

NextRegister == RegisterRequest \/ UserTouch
SpecRegister == Init /\ [][NextRegister]_vars

(***************************************************************************)
(* A host that leaves a pending transaction alone: once a transaction is   *)
(* pending it sends frames on the other channels only.  main() never stops *)
(* receiving and processing, and the host never stops sending              *)
(***************************************************************************)
Quiet(f) == pending.cid = U32Zero \/ f.cid # pending.cid
RecvQuietInit == \E f \in InitFrames : Quiet(f) /\ Receive(f)
RecvQuietCont == \E f \in ContFrames : Quiet(f) /\ Receive(f)

NextQuiet == RecvQuietInit \/ RecvQuietCont \/ ProcessFrame \/ LoopBack

\* the steps of main() by the position they leave and reach: a frame is
\* received, it is processed, the loop goes round
MainLoop ==
  \/ pc = "receive" /\ pc' = "process"
  \/ pc = "process" /\ pc' = "loop"
  \/ pc = "loop" /\ pc' = "receive"
SpecQuiet == Init /\ [][NextQuiet]_vars /\ WF_pc(MainLoop)

(***************************************************************************)
(* The DRBG contexts of the functions that sign and derive keys (u2f.c,    *)
(* x509.c, fips.c).  A context is its K and V, eight words each, and       *)
(* whether make_drbg1 or make_drbg2 has seeded it.  A function is given    *)
(* the step at which its run fails (0: none) and returns `left`: for every *)
(* function that ran, its name and its context as it returned              *)
(***************************************************************************)
set_8words(v) == [i \in 1..8 |-> v]
\* the words an HMAC over the entropy e leaves
HmacWords(tag, e) == [i \in 1..8 |-> 1 + ((e + 31 * i + tag) % 255)]

\* a DRBG local that no function has written
Unseeded == [seeded |-> FALSE, K |-> set_8words(0), V |-> set_8words(0)]
\* make_drbg1 (factory entropy) and make_drbg2 (trng): DRBG_init
make_drbg1(ctx) == [seeded |-> TRUE, K |-> HmacWords(1, 10), V |-> HmacWords(2, 10)]
make_drbg2(ctx) == [seeded |-> TRUE, K |-> HmacWords(1, 11), V |-> HmacWords(2, 11)]
\* DRBG_generate, as fips_keygen and ECDSA_SIGN call it: K and V move on
drbg_used(ctx) == [ctx EXCEPT !.K = HmacWords(3, ctx.K[1]), !.V = HmacWords(4, ctx.V[1])]
DRBG_exit(ctx) == [ctx EXCEPT !.K = set_8words(0), !.V = set_8words(0)]

Left(fn, ctx) == <<[fn |-> fn, ctx |-> ctx]>>

\* origin_keypair; fail: kl_random or kl_derive_origin returns an error
origin_keypair(fail) ==
  IF fail THEN Left("origin_keypair", Unseeded)
  ELSE Left("origin_keypair", DRBG_exit(drbg_used(make_drbg1(Unseeded))))

\* gen_scramblek; fail: kl_derive_obfs returns an error
gen_scramblek(fail) ==
  IF fail THEN Left("gen_scramblek", Unseeded)
  ELSE Left("gen_scramblek", drbg_used(make_drbg1(Unseeded)))

\* individual_keypair; fips: built with CONFIG_FIPS_ATTESTATION_KEYGEN
individual_keypair(fail, fips) ==
  IF fail \/ ~fips THEN Left("individual_keypair", Unseeded)
  ELSE Left("individual_keypair", DRBG_exit(drbg_used(make_drbg1(Unseeded))))

\* generate_cert; fail: ECDSA_SIGN returns 0
generate_cert(fail) == Left("generate_cert", drbg_used(make_drbg2(Unseeded)))

\* u2f_register from the attestation on (u2f.c:263-301); c.fail is 3
\* (individual_keypair), 4 (no certificate) or 5 (ECDSA_SIGN)
register_signs(c) ==
  IF c.attest /\ c.fail = 3
    THEN individual_keypair(TRUE, c.fips) \o Left("u2f_register", Unseeded)
  ELSE IF c.attest /\ c.fail = 4
    THEN individual_keypair(FALSE, c.fips) \o Left("u2f_register", Unseeded)
  ELSE IF ~c.attest /\ c.fail = 4
    THEN generate_cert(TRUE) \o Left("u2f_register", Unseeded)
  ELSE (IF c.attest THEN individual_keypair(FALSE, c.fips)
                    ELSE generate_cert(FALSE))
       \o Left("u2f_register", drbg_used(make_drbg2(Unseeded)))

\* u2f_register; c.fail is 6 (a return before origin_keypair), 1
\* (origin_keypair), 2 (obfuscate_kh) or a later step
u2f_register_left(c) ==
  IF c.fail = 6 THEN Left("u2f_register", Unseeded)
  ELSE IF c.fail = 1
    THEN origin_keypair(TRUE) \o Left("u2f_register", Unseeded)
  ELSE IF c.fail = 2
    THEN origin_keypair(FALSE) \o gen_scramblek(TRUE)
           \o Left("u2f_register", Unseeded)
  ELSE origin_keypair(FALSE) \o gen_scramblek(FALSE) \o register_signs(c)

\* u2f_authenticate; c.fail is 6 (a return before obfuscate_kh), 1
\* (obfuscate_kh), 4 (a return before origin_keypair: wrong data, check
\* only, no presence), 2 (origin_keypair), 3 (ECDSA_SIGN)
u2f_authenticate_left(c) ==
  IF c.fail = 6 THEN Left("u2f_authenticate", Unseeded)
  ELSE IF c.fail = 1
    THEN gen_scramblek(TRUE) \o Left("u2f_authenticate", Unseeded)
  ELSE IF c.fail = 4
    THEN gen_scramblek(FALSE) \o Left("u2f_authenticate", Unseeded)
  ELSE IF c.fail = 2
    THEN gen_scramblek(FALSE) \o origin_keypair(TRUE)
           \o Left("u2f_authenticate", Unseeded)
  ELSE gen_scramblek(FALSE) \o origin_keypair(FALSE)
         \o Left("u2f_authenticate", drbg_used(make_drbg2(Unseeded)))

\* the call c
LeftBy(c) ==
  CASE c.fn = "origin_keypair" -> origin_keypair(c.fail # 0)
    [] c.fn = "gen_scramblek" -> gen_scramblek(c.fail # 0)
    [] c.fn = "individual_keypair" -> individual_keypair(c.fail # 0, c.fips)
    [] c.fn = "generate_cert" -> generate_cert(c.fail # 0)
    [] c.fn = "u2f_register" -> u2f_register_left(c)
    [] c.fn = "u2f_authenticate" -> u2f_authenticate_left(c)

(***************************************************************************)
(* The functions that seed a DRBG, called one after another on any path    *)
(***************************************************************************)
DrbgCalls ==
  [fn : {"origin_keypair", "gen_scramblek", "individual_keypair",
         "generate_cert", "u2f_register", "u2f_authenticate"},
   fail : 0..6, attest : BOOLEAN, fips : BOOLEAN]

DrbgCall ==
  /\ \E c \in DrbgCalls :
       /\ arg' = c
       /\ res' = [fn |-> c.fn, left |-> LeftBy(c)]
  /\ UNCHANGED <<program, drbg, rct, aes, dcrypto, personality,
                 nvcounter, callbacks, h1b_kl>>

NextExit == DrbgCall
SpecExit == Init /\ [][NextExit]_vars

(***************************************************************************)
(* DER sequences (asn1.h SEQ_START / SEQ_END, asn1.c asn1_seq).  A buffer  *)
(* is a sequence of bytes, offsets count from 0 as in the code.  The       *)
(* content between the two macros is written at the offset SEQ_START left  *)
(* and advances it by its size.                                            *)
(***************************************************************************)
\* p with the bytes bs stored from offset off on
store(p, off, bs) ==
  [i \in DOMAIN p |->
     IF i - 1 >= off /\ i - 1 < off + Len(bs) THEN bs[i - off] ELSE p[i]]

memmove(p, dst, src, n) ==
  [i \in DOMAIN p |->
     IF i - 1 >= dst /\ i - 1 < dst + n THEN p[i - dst + src] ELSE p[i]]

\* asn1_seq that never moves the content
asn1_seq_in_place(p, base, tag, l, size) ==
  [p |-> store(store(p, base, <<tag>>), base + 1, asn1_len(size).p),
   rv |-> asn1_len(size).rv + 1 + size]

\* asn1_seq(p + base, tag, l, size): [p, rv]
asn1_seq(p, base, tag, l, size) ==
  LET hdr == store(store(p, base, <<tag>>), base + 1, asn1_len(size).p)
      tl == asn1_len(size).rv + 1
  IN [p |-> IF tl < l THEN memmove(hdr, base + tl, base + l, size) ELSE hdr,
      rv |-> tl + size]

SEQ_SMALL == 2
SEQ_MEDIUM == 3
SEQ_LARGE == 4
t_SEQ == 48
t_SET == 49

\* the context and the locals __old, __t, __l of the block SEQ_START opens
SEQ_START(ctx, T, L) ==
  [ctx |-> [ctx EXCEPT !.n = @ + L], old |-> ctx.n, t |-> T, l |-> L]

SEQ_END(b) ==
  LET r == asn1_seq(b.ctx.p, b.old, b.t, b.l, b.ctx.n - b.old - b.l)
  IN [p |-> r.p, n |-> r.rv + b.old]

\* content bytes written inside the block, as asn1_object and the like do
SeqContent(seed, size) == [i \in 1..size |-> (seed + 7 * i) % 256]

within(b, bs) ==
  [b EXCEPT !.ctx = [p |-> store(b.ctx.p, b.ctx.n, bs), n |-> b.ctx.n + Len(bs)]]

SeqSizes == {0, 1, 2, 127, 128, 129, 255, 256, 257}
SeqStarts == {0, 1, 5}
SeqArgs ==
  [fn : {"asn1_seq"}, start : SeqStarts, tag : {t_SEQ, t_SET},
   l : {SEQ_SMALL, SEQ_MEDIUM, SEQ_LARGE}, size : SeqSizes, seed : {1, 2}]

\* a buffer that holds the sequence whatever header it gets
SeqBuffer(a) == [i \in 1..(a.start + SEQ_LARGE + a.size) |-> 0]

InitSeq ==
  /\ InitStatics(U32(0, 1))
  /\ InitObjects
  /\ arg \in SeqArgs
  /\ res = NoCall

SeqPair ==
  /\ res.fn = "none"
  /\ arg.fn = "asn1_seq"
  /\ \E e \in {SEQ_END(within(SEQ_START([p |-> SeqBuffer(arg), n |-> arg.start],
                                        arg.tag, arg.l),
                              SeqContent(arg.seed, arg.size)))} :
       res' = [fn |-> "asn1_seq", p |-> e.p, n |-> e.n]
  /\ UNCHANGED <<program, drbg, rct, aes, dcrypto, personality, arg,
                 nvcounter, callbacks, h1b_kl>>

NextSeq == SeqPair
SpecSeq == InitSeq /\ [][NextSeq]_vars

(***************************************************************************)
(* CBC through the AES shim (tock_shims.c fips_aes_block, h1b_aes_syscalls *)
(* .c): fips_aes_init once, then one fips_aes_block for every block of a   *)
(* message.  The engine answers every command with success.                *)
(***************************************************************************)
\* [buf, iv]: the block in place and the iv afterwards
aes_encrypt_cbc_block(key, buf, iv) ==
  [buf |-> aes_encrypt(key, XorBytes(buf, iv)),
   iv |-> aes_encrypt(key, XorBytes(buf, iv))]

aes_decrypt_cbc_block(key, buf, iv) ==
  [buf |-> XorBytes(aes_decrypt(key, buf), iv), iv |-> buf]

\* lines 112-120 of fips_aes_block: the iv handed to the engine is a local
\* copy of what initialization_vector points to; [out, iv] are the block
\* written and that local copy when the function returns
fips_aes_block_cbc(a, in) ==
  LET r == IF a.encrypt_mode = AES_ENCRYPT_MODE
             THEN aes_encrypt_cbc_block(a.key, in, a.initialization_vector)
             ELSE aes_decrypt_cbc_block(a.key, in, a.initialization_vector)
  IN [aes |-> a, out |-> r.buf, iv |-> r.iv, rv |-> 1]

CbcBlocks == {Pattern(3, AES_BLOCK_LEN), Pattern(200, AES_BLOCK_LEN)}
CbcMessages ==
  {<<b>> : b \in CbcBlocks}
    \cup {<<b, c>> : b \in CbcBlocks, c \in CbcBlocks}
    \cup {<<b, c, d>> : b \in CbcBlocks, c \in CbcBlocks, d \in CbcBlocks}
CbcArgs ==
  [fn : {"cbc"}, key : {Pattern(1, AES_BLOCK_LEN)},
   iv : {Zeros(AES_BLOCK_LEN), Pattern(9, AES_BLOCK_LEN)},
   mode : {AES_ENCRYPT_MODE, AES_DECRYPT_MODE}, msg : CbcMessages]

InitCbc ==
  /\ InitStatics(U32(0, 1))
  /\ InitObjects
  /\ arg \in CbcArgs
  /\ res = NoCall

CbcInit ==
  /\ res.fn = "none"
  /\ arg.fn = "cbc"
  /\ aes' = fips_aes_init(aes, arg.key, 128, arg.iv, AES_CIPHER_MODE_CBC,
                          arg.mode).aes
  /\ res' = [fn |-> "cbc", out |-> <<>>]
  /\ UNCHANGED <<program, drbg, rct, dcrypto, personality, arg,
                 nvcounter, callbacks, h1b_kl>>

CbcBlock ==
  /\ res.fn = "cbc"
  /\ Len(res.out) < Len(arg.msg)
  /\ \E r \in {fips_aes_block_cbc(aes, arg.msg[Len(res.out) + 1])} :
       /\ aes' = r.aes
       /\ res' = [res EXCEPT !.out = Append(@, r.out)]
  /\ UNCHANGED <<program, drbg, rct, dcrypto, personality, arg,
                 nvcounter, callbacks, h1b_kl>>

NextCbc == CbcInit \/ CbcBlock
SpecCbc == InitCbc /\ [][NextCbc]_vars

(***************************************************************************)
(* The repetition-count test over a buffer (repetition_count_test_n) next  *)
(* to the streaming test: the words of one buffer are fed to the streaming *)
(* test one by one from its zeroed statics, and the buffer is handed to    *)
(* repetition_count_test_n.  us holds, word by word, the counts of the     *)
(* calls whose argument is 0.                                              *)
(***************************************************************************)
\* the loop of lines 65-79 from word i (from 1) on
RECURSIVE rct_n_loop(_, _, _, _, _)
rct_n_loop(in, i, last_clz, last_clo, us) ==
  IF i > Len(in) THEN "EC_SUCCESS"
  ELSE IF __builtin_ctz(in[i], us[i].ctz) + last_clz >= RCT_CUTOFF_BITS
    THEN "EC_ERROR_UNKNOWN"
  ELSE IF __builtin_ctz(U32Not(in[i]), us[i].ctz) + last_clo >= RCT_CUTOFF_BITS
    THEN "EC_ERROR_UNKNOWN"
  ELSE rct_n_loop(in, i + 1,
                  rct_last(__builtin_clz(in[i], us[i].clz), in[i], last_clz),
                  rct_last(__builtin_clz(U32Not(in[i]), us[i].clz),
                           U32Not(in[i]), last_clo),
                  us)

repetition_count_test_n(in, us) ==
  IF Len(in) < RCT_CUTOFF_WORDS THEN "EC_ERROR_UNKNOWN"
  ELSE rct_n_loop(in, 1, 0, 0, us)

\* all zeros, all ones, 20 leading zeros, 21 trailing zeros
RctNWords == {U32Zero, U32(65535, 65535), U32(0, 4095), U32(65504, 0)}
RctBuffers ==
  {<<>>} \cup {<<a>> : a \in RctNWords}
    \cup {<<a, b>> : a \in RctNWords, b \in RctNWords}
    \cup {<<a, b, c>> : a \in {U32(0, 4095), U32(65504, 0)},
                         b \in {U32(0, 4095), U32(65504, 0)}, c \in RctNWords}

RECURSIVE UndefinedIn(_)
UndefinedIn(in) ==
  IF in = <<>> THEN {<<>>}
  ELSE {<<u>> \o t : u \in Undefined(Head(in)), t \in UndefinedIn(Tail(in))}

InitRctN ==
  /\ InitStatics(U32(0, 1))
  /\ InitObjects
  /\ arg \in {[fn |-> "repetition_count_test_n", in |-> b] : b \in RctBuffers}
  /\ res = [fn |-> "repetition_count_test_n", rv |-> "none", fed |-> 0,
            fatal_before |-> {}, fatal_after |-> {}]

\* the next word of the buffer goes to the streaming test
RctStream ==
  /\ arg.fn = "repetition_count_test_n"
  /\ res.fed < Len(arg.in)
  /\ \E u \in Undefined(arg.in[res.fed + 1]) :
       \E r \in {repetition_count_test(State, rct, arg.in[res.fed + 1], u)} :
         /\ Returns(r.s)
         /\ rct' = r.rct
  /\ res' = [res EXCEPT !.fed = @ + 1]
  /\ UNCHANGED <<pc, kat, reported, frame, dcrypto, personality, drbg, aes, arg,
                 nvcounter, callbacks, h1b_kl>>

RctBuffer ==
  /\ arg.fn = "repetition_count_test_n"
  /\ res.rv = "none"
  /\ \E us \in UndefinedIn(arg.in) :
       res' = [res EXCEPT !.rv = repetition_count_test_n(arg.in, us),
                          !.fatal_before = fips_fatal,
                          !.fatal_after = fips_fatal]
  /\ UNCHANGED <<program, drbg, rct, aes, dcrypto, personality, arg,
                 nvcounter, callbacks, h1b_kl>>

NextRctN == RctStream \/ RctBuffer
SpecRctN == InitRctN /\ [][NextRctN]_vars

(***************************************************************************)
(* Key ladder shims (tock_shims.c kl_step, kl_init, kl_random, kl_derive). *)
(* An answer k of the kernel to one kl_step says whether the digest engine *)
(* reports busy, what tock_digest_with_cert returns and what the output    *)
(* buffer holds afterwards.  A log entry records one call of kl_step.  The  *)
(* shims keep no state of their own: one call is made from the initial     *)
(* state.                                                                  *)
(***************************************************************************)
Nonzero(rv) == rv.name = "TOCK_EBUSY" \/ rv.value # 0

kl_step(cert, k) ==
  IF k.busy
    THEN [cert |-> cert, busy |-> TRUE, issued |-> FALSE, rv |-> TOCK_EBUSY,
          out |-> k.out]
    ELSE [cert |-> cert, busy |-> FALSE, issued |-> TRUE, rv |-> Rv(k.rv),
          out |-> k.out]

\* the steps that fail among the first n of a chain
KlFailed(certs, ks, n) ==
  {i \in 1..n : Nonzero(kl_step(certs[i], ks[i]).rv)}

\* the chain that calls kl_step for every certificate, failed or not
kl_chain_all(certs, ks) ==
  [error |-> IF KlFailed(certs, ks, Len(certs)) = {} THEN 0 ELSE 1,
   log |-> [i \in 1..Len(certs) |-> kl_step(certs[i], ks[i])]]

\* error = error || kl_step(...), once for every certificate of certs: the
\* calls are made up to the first one that returns a value other than 0
kl_chain(certs, ks) ==
  LET last == IF KlFailed(certs, ks, Len(certs)) = {} THEN Len(certs)
              ELSE CHOOSE i \in KlFailed(certs, ks, Len(certs)) :
                     KlFailed(certs, ks, i - 1) = {}
  IN [error |-> IF KlFailed(certs, ks, Len(certs)) = {} THEN 0 ELSE 1,
      log |-> [i \in 1..last |-> kl_step(certs[i], ks[i])]]

\* the certificates of kl_init: 28, the eight of hcc2 with 25 repeated
\* 254 + 1 times, 34
KlInitCerts ==
  <<28, 0, 3, 4, 5, 7, 15, 20>> \o [i \in 1..(254 + 1) |-> 25] \o <<34>>

kl_init(ks) ==
  LET r == kl_chain(KlInitCerts, ks)
  IN [rv |-> r.error, log |-> r.log]

\* kl_random and kl_derive, [rv, log, output]: output is what the caller's
\* buffer holds afterwards
kl_random_extract(output, ks) ==
  LET r == kl_chain(<<27>>, ks)
  IN [rv |-> r.error, log |-> r.log,
      output |-> IF r.error = 0 THEN r.log[1].out ELSE output]

kl_derive(output, ks) ==
  LET r == kl_chain(<<35, 38>>, ks)
  IN [rv |-> r.error, log |-> r.log,
      output |-> IF Len(r.log) = 2 /\ r.log[2].issued
                   THEN r.log[2].out ELSE output]

KlOk == [busy |-> FALSE, rv |-> 0, out |-> set_8words(7)]
KlBad ==
  {[busy |-> TRUE, rv |-> 0, out |-> set_8words(9)],
   [busy |-> FALSE, rv |-> -1, out |-> set_8words(9)],
   [busy |-> FALSE, rv |-> 1, out |-> set_8words(9)]}
\* the answers to a chain of n steps: every one good, or one of them bad
KlAnswers(n) ==
  {[i \in 1..n |-> KlOk]}
    \cup {[i \in 1..n |-> IF i = failAt THEN bad ELSE KlOk] :
            failAt \in 1..n, bad \in KlBad}

KlInit ==
  /\ res.fn = "none"
  /\ \E ks \in KlAnswers(Len(KlInitCerts)) :
       \E r \in {kl_init(ks)} :
         /\ arg' = [fn |-> "kl_init", ks |-> ks, output |-> <<>>]
         /\ res' = [fn |-> "kl_init", rv |-> r.rv, log |-> r.log,
                    output |-> <<>>]
  /\ UNCHANGED <<program, drbg, rct, aes, dcrypto, personality,
                 nvcounter, callbacks, h1b_kl>>

KlRandom ==
  /\ res.fn = "none"
  /\ \E ks \in KlAnswers(1), output \in {set_8words(0), set_8words(5)} :
       \E r \in {kl_random_extract(output, ks)} :
         /\ arg' = [fn |-> "kl_random", ks |-> ks, output |-> output]
         /\ res' = [fn |-> "kl_random", rv |-> r.rv, log |-> r.log,
                    output |-> r.output]
  /\ UNCHANGED <<program, drbg, rct, aes, dcrypto, personality,
                 nvcounter, callbacks, h1b_kl>>

KlDerive ==
  /\ res.fn = "none"
  /\ \E ks \in KlAnswers(2), output \in {set_8words(0), set_8words(5)} :
       \E r \in {kl_derive(output, ks)} :
         /\ arg' = [fn |-> "kl_derive", ks |-> ks, output |-> output]
         /\ res' = [fn |-> "kl_derive", rv |-> r.rv, log |-> r.log,
                    output |-> r.output]
  /\ UNCHANGED <<program, drbg, rct, aes, dcrypto, personality,
                 nvcounter, callbacks, h1b_kl>>

NextKl == KlInit \/ KlRandom \/ KlDerive
SpecKl == Init /\ [][NextKl]_vars

(***************************************************************************)
(* Binding calls and their callbacks.  A binding call runs up to its       *)
(* yield_for in one step; the driver ends an operation in another; a       *)
(* callback is delivered while a call sits in yield_for.  A callback whose *)
(* argument is the flag of a call that has returned writes through a       *)
(* dangling pointer: it may hit the flag the process is waiting on.        *)
(***************************************************************************)
NvIncrements == 5
NvAnswers == [subscribe : KernelRets, command : KernelRets]
InCall(fn, k, before) == [fn |-> fn, k |-> k, before |-> before]
Outcome35(fn, rv, returned) ==
  [fn |-> fn, rv |-> rv, returned |-> returned, fired |-> FALSE, carried |-> 0]

\* nvcounter_ctest: the loop of main calls tock_nvcounter_increment(&val)
NvIncrementCall ==
  /\ callbacks.waiting = "none"
  /\ nvcounter.i < NvIncrements
  /\ \E k \in NvAnswers :
       \E r \in {tock_nvcounter_increment([nvcounter EXCEPT !.i = @ + 1],
                                          callbacks, k)} :
         /\ nvcounter' = r.nv
         /\ callbacks' = r.c
         /\ arg' = InCall("tock_nvcounter_increment", k, nvcounter.val)
         /\ res' = Outcome35("tock_nvcounter_increment", r.rv, ~r.yields)
  /\ UNCHANGED <<program, drbg, rct, aes, dcrypto, personality, h1b_kl>>

\* what the callback of a driver carries: the new counter or an error code
DoneValues(d) == IF d = "nvcounter" THEN {nvcounter.hw + 1, -1} ELSE {0}

DriverDone ==
  /\ \E d \in Drivers :
       /\ callbacks.drv[d].busy
       /\ \E value \in DoneValues(d) :
            /\ callbacks' = driver_done(callbacks, d, value)
            /\ nvcounter' = IF d = "nvcounter" /\ value >= 0
                              THEN [nvcounter EXCEPT !.hw = value]
                              ELSE nvcounter
       /\ personality' = IF d = "personality" /\ personality.setting.busy
                           THEN set_done(personality) ELSE personality
  /\ UNCHANGED <<program, drbg, rct, aes, dcrypto, h1b_kl, arg, res>>

\* the flag the call in yield_for waits on was set by the callback of d
FlagSet(d, clobber) ==
  \/ callbacks.drv[d].queued = "live" /\ callbacks.waiting = d
  \/ clobber

YieldDeliver ==
  /\ callbacks.waiting # "none"
  /\ \E d \in Drivers :
       /\ callbacks.drv[d].queued # "none"
       /\ \E clobber \in (IF callbacks.drv[d].queued = "dead"
                            THEN BOOLEAN ELSE {FALSE}) :
            /\ callbacks' = IF FlagSet(d, clobber)
                              THEN returns_from(delivered(callbacks, d),
                                                callbacks.waiting)
                              ELSE delivered(callbacks, d)
            /\ res' = IF FlagSet(d, clobber)
                        THEN [res EXCEPT !.returned = TRUE,
                                         !.fired = (callbacks.waiting = d),
                                         !.carried = callbacks.drv[d].value]
                        ELSE res
       /\ nvcounter' = IF d = "nvcounter"
                         THEN tock_nvcounter_increment_done(
                                nvcounter, callbacks.drv[d].value)
                         ELSE nvcounter
  /\ UNCHANGED <<program, drbg, rct, aes, dcrypto, personality, h1b_kl, arg>>

NextNv == NvIncrementCall \/ DriverDone \/ YieldDeliver
SpecNv == Init /\ [][NextNv]_vars

(***************************************************************************)
(* Long messages next to frames on the channels that carry no message:     *)
(* requests of more than one frame on channel 0 and on the broadcast       *)
(* channel, and a continuation frame on the broadcast channel, at any time *)
(***************************************************************************)
StrayFrames ==
  {MkInit(c, U2FHID_PING, n, Pattern(1, 57)) :
     c \in {U32Zero, CID_BROADCAST}, n \in {58, MAX_BCNT}}
  \cup ContFramesOn({CID_BROADCAST}, {0})

RecvStray == \E f \in StrayFrames : Receive(f)

NextPending ==
  RecvLongInit \/ RecvLongCont \/ RecvStray \/ ProcessFrame \/ LoopBack
SpecPending == Init /\ [][NextPending]_vars

(***************************************************************************)
(* The bindings of the U2F application (u2f_app main.c): setup_personality *)
(* stores a record with tock_set_personality, the main loop receives       *)
(* frames with tock_u2f_receive.                                           *)
(***************************************************************************)
\* tock_set_personality in terms of its callback: the call returns with
\* the callback subscribed and the command accepted
set_personality_callbacks(c, k) ==
  IF k.subscribe < 0 THEN c
  ELSE IF k.allow < 0 \/ k.command < 0
    THEN returns_from(subscribe(c, "personality"), "personality")
  ELSE returns_from(command(subscribe(c, "personality"), "personality"),
                    "personality")

\* tock_u2f_receive up to its yield_for: [c, rv, yields]
tock_u2f_receive(c, k) ==
  IF k.subscribe < 0 THEN [c |-> c, rv |-> Rv(k.subscribe), yields |-> FALSE]
  ELSE IF k.allow < 0
    THEN [c |-> returns_from(subscribe(c, "u2f_receive"), "u2f_receive"),
          rv |-> TOCK_EBUSY, yields |-> FALSE]
  ELSE IF k.command < 0
    THEN [c |-> returns_from(subscribe(c, "u2f_receive"), "u2f_receive"),
          rv |-> Rv(k.command), yields |-> FALSE]
  ELSE [c |-> [command(subscribe(c, "u2f_receive"), "u2f_receive")
                 EXCEPT !.waiting = "u2f_receive"],
        rv |-> Rv(0), yields |-> TRUE]

\* the driver refuses a command while its last one is in progress
Consistent(d, k) == callbacks.drv[d].busy => k.command < 0

SetPersonalityCall ==
  /\ callbacks.waiting = "none"
  /\ \E k \in SetAnswers, salt \in {2, 3} :
       /\ Consistent("personality", k)
       /\ \E r \in {tock_set_personality(
                      personality,
                      new_personality([StoredSalt EXCEPT !.salt = salt]).id, k)} :
            /\ personality' = r.p
            /\ res' = Outcome35("tock_set_personality", Rv(r.rv), TRUE)
       /\ callbacks' = set_personality_callbacks(callbacks, k)
       /\ arg' = InCall("tock_set_personality", k, U32Zero)
  /\ UNCHANGED <<program, drbg, rct, aes, dcrypto, nvcounter, h1b_kl>>

U2fReceiveCall ==
  /\ callbacks.waiting = "none"
  /\ \E k \in SetAnswers :
       /\ Consistent("u2f_receive", k)
       /\ \E r \in {tock_u2f_receive(callbacks, k)} :
            /\ callbacks' = r.c
            /\ res' = Outcome35("tock_u2f_receive", r.rv, ~r.yields)
       /\ arg' = InCall("tock_u2f_receive", k, U32Zero)
  /\ UNCHANGED <<program, drbg, rct, aes, dcrypto, personality, nvcounter,
                 h1b_kl>>

NextCallbacks ==
  SetPersonalityCall \/ U2fReceiveCall \/ DriverDone \/ YieldDeliver
SpecCallbacks == Init /\ [][NextCallbacks]_vars

(***************************************************************************)
(* The application id of AUTHENTICATE: REGISTER for arg.appId, then        *)
(* AUTHENTICATE with the key handle returned and an application id that    *)
(* differs from arg.appId in byte j                                        *)
(***************************************************************************)
OriginAuthenticate ==
  /\ res.fn = "u2f_register"
  /\ \E j \in 1..32, x \in KhDeltas :
       \E r \in {ApduRcv(AuthenticateApdu(
                           G2F_TUP + G2F_CONSUME,
                           [arg.appId EXCEPT ![j] = (@ + x) % 256], res.kh),
                         KhAuthOutcome)} :
         /\ Returns(r.s)
         /\ res' = [fn |-> "u2f_authenticate", sw |-> ReplySw(r), i |-> 0,
                    j |-> j]
  /\ UNCHANGED <<pc, kat, reported, frame, dcrypto, personality, drbg, rct, aes,
                 arg, nvcounter, callbacks, h1b_kl>>

NextOrigin == KhRegister \/ OriginAuthenticate
SpecOrigin == InitKh /\ [][NextOrigin]_vars


(***************************************************************************)
(* Requests shorter than they declare (u2f.c, u2f_transport.c)             *)
(*                                                                         *)
(* The host sends whole REGISTER and AUTHENTICATE requests and, after      *)
(* them, messages that stop before the payload their length byte declares. *)
(***************************************************************************)
\* the first n bytes of the request a
Truncated(a, n) == SubSeq(a, 1, n)

ShortApdus ==
  {RegisterApdu(0, AppId(0)),
   AuthenticateApdu(G2F_TUP + G2F_CONSUME, AppId(0), KhOf(0)),
   Truncated(RegisterApdu(0, AppId(0)), 5),
   Truncated(RegisterApdu(0, AppId(0)), 37),
   Truncated(AuthenticateApdu(G2F_TUP + G2F_CONSUME, AppId(0), KhOf(0)), 5),
   Truncated(AuthenticateApdu(G2F_TUP + G2F_CONSUME, AppId(0), KhOf(0)), 70)}

NextShort ==
  \/ RecvApduInit(ShortApdus) \/ RecvApduCont(ShortApdus)
  \/ ProcessApdu \/ LoopBack
SpecShort == Init /\ [][NextShort]_vars


(***************************************************************************)
(* A client of the key ladder driver (h1b_kl_syscalls.c): it sets the      *)
(* input and the output buffer of a step, to buffers of its own or to      *)
(* NULL, and the kernel accepts or refuses each allow.                     *)
(***************************************************************************)
KlBuffers == {"NULL", "salt", "seed", "output"}

KlSetInput ==
  /\ \E b \in KlBuffers, k \in KernelRets :
       \E r \in {tock_h1b_kl_set_input(h1b_kl, b, k)} :
         /\ h1b_kl' = r.kl
         /\ arg' = [fn |-> "tock_h1b_kl_set_input", buf |-> b, k |-> k,
                    before |-> h1b_kl]
         /\ res' = [fn |-> "tock_h1b_kl_set_input", rv |-> r.rv,
                    allowed |-> r.allowed]
  /\ UNCHANGED <<program, drbg, rct, aes, dcrypto, personality, nvcounter,
                 callbacks>>

KlSetOutput ==
  /\ \E b \in KlBuffers, k \in KernelRets :
       \E r \in {tock_h1b_kl_set_output(h1b_kl, b, k)} :
         /\ h1b_kl' = r.kl
         /\ arg' = [fn |-> "tock_h1b_kl_set_output", buf |-> b, k |-> k,
                    before |-> h1b_kl]
         /\ res' = [fn |-> "tock_h1b_kl_set_output", rv |-> r.rv,
                    allowed |-> r.allowed]
  /\ UNCHANGED <<program, drbg, rct, aes, dcrypto, personality, nvcounter,
                 callbacks>>

NextH1bKl == KlSetInput \/ KlSetOutput
SpecH1bKl == Init /\ [][NextH1bKl]_vars

(***************************************************************************)
(* Properties                                                              *)
(***************************************************************************)
\* a step that is one call of u2fhid_process_frame on `frame`
Call == pc = "process" /\ pc' = "loop"
\* the frame passes the channel-id checks and the channel lock
Admitted(f) ==
  /\ f.cid # U32Zero
  /\ ~(f.cid = CID_BROADCAST /\ FRAME_CMD(f) # U2FHID_INIT % 128)
  /\ (lock_CID = U32Zero \/ f.cid = lock_CID)
\* an INIT-type frame that is not the channel-initialization command
StartsMessage(f) ==
  FRAME_TYPE(f) = TYPE_INIT /\ FRAME_CMD(f) # U2FHID_INIT % 128
\* the in-order CONT frame of the pending transaction
InOrderCont(f) ==
  /\ FRAME_TYPE(f) = TYPE_CONT
  /\ pending.cid # U32Zero /\ f.cid = pending.cid
  /\ ContSeq(f) = pending.seqno
CeilDiv(a, b) == (a + b - 1) \div b
\* the frames sent by the call are exactly one error frame on cid
SentError(log, cid, errno) ==
  Len(log) = 1 /\ log[1].frame = ErrorFrame(cid, errno)

\* C1: from an idle pending slot a message of declared length L is
\* dispatched on its INIT frame iff L <= 57; a longer one of at most 2358
\* bytes is dispatched exactly on its ceil((L - 57) / 59)-th in-order CONT
\* frame; L > 2358 is answered with ERR_INVALID_LEN and the slot stays idle
C1_Dispatch ==
  [][ /\ (Call /\ Admitted(frame) /\ StartsMessage(frame)
               /\ pending.cid = U32Zero) =>
          LET L == MSG_LEN(frame)
          IN /\ (dispatched' # NoDispatch) <=> (L <= 57)
             /\ L <= 57 =>
                  dispatched' = [cid |-> frame.cid, cmd |-> FRAME_CMD(frame),
                                 bcnt |-> L, nframes |-> 0]
             /\ (L > 57 /\ L <= 2358) =>
                  pending' = [cid |-> frame.cid, data |-> "rx_buffer",
                              cmd |-> FRAME_CMD(frame), seqno |-> 0,
                              bcnt |-> L]
             /\ L > 2358 =>
                  /\ SentError(sent', frame.cid, ERR_INVALID_LEN)
                  /\ pending' = IdlePending
      /\ (Call /\ Admitted(frame) /\ InOrderCont(frame)) =>
          LET L == pending.bcnt
              k == pending.seqno + 1
          IN /\ (dispatched' # NoDispatch) <=> (k = CeilDiv(L - 57, 59))
             /\ k = CeilDiv(L - 57, 59) =>
                  dispatched' = [cid |-> pending.cid, cmd |-> pending.cmd,
                                 bcnt |-> L, nframes |-> k]
             /\ k # CeilDiv(L - 57, 59) =>
                  pending' = [pending EXCEPT !.seqno = k]
    ]_vars

\* a 2358-byte message was dispatched on its 39th CONT frame
C1_Witness ==
  /\ pc = "loop"
  /\ dispatched.bcnt = MAX_BCNT /\ dispatched.nframes = 39
  /\ ContSeq(frame) = 38

\* what the environment does when nothing fails
NoEnv == [failAt |-> 0, h |-> NoOutcome, failK |-> 0, trip |-> FALSE]
\* the state in which the next call would start
NextCallState == [State EXCEPT !.sent = <<>>, !.dispatched = NoDispatch]
\* a frame on a channel that is neither reserved nor the broadcast channel
ValidChannel(c) == c # U32Zero /\ c # CID_BROADCAST
\* an INIT-type frame of the channel-initialization command
IsInitCmd(f) == FRAME_TYPE(f) = TYPE_INIT /\ FRAME_CMD(f) = U2FHID_INIT % 128
\* some frame of the log is a transport error frame
IsErrorFrame(x) == x.frame.raw[1] = U2FHID_ERROR
SendsError(log) == \E i \in 1..Len(log) : IsErrorFrame(log[i])
SendsErrno(log, errno) ==
  \E i \in 1..Len(log) : IsErrorFrame(log[i]) /\ log[i].frame.raw[4] = errno

\* in the current state an INIT frame f starting a message would be taken as
\* a fresh transaction: dispatched at once when short, else pending with
\* sequence number 0, and no frame is sent before the message is complete
AcceptedFresh(f) ==
  LET r == u2fhid_process_frame(NextCallState, f, NoEnv)
      L == MSG_LEN(f)
  IN IF L <= 57
       THEN r.dispatched = [cid |-> f.cid, cmd |-> FRAME_CMD(f), bcnt |-> L,
                            nframes |-> 0]
       ELSE /\ r.pending = [cid |-> f.cid, data |-> "rx_buffer",
                            cmd |-> FRAME_CMD(f), seqno |-> 0, bcnt |-> L]
            /\ r.sent = <<>>
            /\ r.dispatched = NoDispatch
\* ... for every such frame the host may send on channel c
FreshOn(c) ==
  \A f \in InitFrames :
    (f.cid = c /\ StartsMessage(f) /\ MSG_LEN(f) <= MAX_BCNT) => AcceptedFresh(f)

\* the call that just ended answered a CONT frame with ERR_INVALID_SEQ
BadSeqAnswered ==
  /\ pc = "loop"
  /\ FRAME_TYPE(frame) = TYPE_CONT
  /\ SentError(sent, frame.cid, ERR_INVALID_SEQ)

\* C2: a CONT frame on the pending channel with the wrong sequence number
\* is answered with exactly one ERR_INVALID_SEQ frame on that channel and
\* clears the pending slot; an INIT frame starting a new message on that
\* channel is then accepted as a fresh transaction
C2_BadSeq ==
  [][ (/\ Call
       /\ FRAME_TYPE(frame) = TYPE_CONT
       /\ pending.cid # U32Zero /\ frame.cid = pending.cid
       /\ ContSeq(frame) # pending.seqno) =>
        /\ SentError(sent', frame.cid, ERR_INVALID_SEQ)
        /\ pending' = IdlePending
        /\ dispatched' = NoDispatch
    ]_vars
  /\ [](BadSeqAnswered => FreshOn(frame.cid))

\* the second CONT frame of a 117-byte message came with sequence number 6
C2_Witness ==
  /\ pc = "loop"
  /\ FRAME_TYPE(frame) = TYPE_CONT /\ ContSeq(frame) = 6
  /\ frame.cid = Chan(1)
  /\ SentError(sent, Chan(1), ERR_INVALID_SEQ)
  /\ Len(rx_buffer) = 2
  /\ pending = IdlePending

\* C3: once a LOCK with nonzero duration was dispatched on channel A, every
\* frame other than U2FHID_INIT on another valid channel B is answered with
\* ERR_CHANNEL_BUSY and changes neither the lock owner nor the pending
\* slot; a LOCK with duration 0 releases the lock, after which frames of B
\* are processed normally
C3_Lock ==
  [][ /\ (Call /\ dispatched'.cmd = U2FHID_LOCK % 128) =>
          lock_CID' = IF InitData(frame)[1] # 0 THEN frame.cid ELSE U32Zero
      /\ (Call /\ lock_CID # U32Zero /\ ValidChannel(frame.cid)
               /\ frame.cid # lock_CID /\ ~IsInitCmd(frame)) =>
          /\ SentError(sent', frame.cid, ERR_CHANNEL_BUSY)
          /\ lock_CID' = lock_CID
          /\ pending' = pending
          /\ rx_buffer' = rx_buffer
          /\ dispatched' = NoDispatch
      /\ (Call /\ lock_CID = U32Zero /\ ValidChannel(frame.cid)
               /\ pending.cid \in {U32Zero, frame.cid}) =>
          /\ ~SendsErrno(sent', ERR_CHANNEL_BUSY)
          /\ (StartsMessage(frame) /\ pending.cid = U32Zero
                /\ MSG_LEN(frame) <= 57) => dispatched'.cid = frame.cid
    ]_vars

\* channel 1 holds the lock and a CONT frame of channel 2 was refused
C3_Witness ==
  /\ pc = "loop"
  /\ lock_CID = Chan(1)
  /\ frame.cid = Chan(2) /\ FRAME_TYPE(frame) = TYPE_CONT
  /\ SentError(sent, Chan(2), ERR_CHANNEL_BUSY)

\* the call answered with the U2FHID_INIT response to f alone: the nonce of
\* f, on the channel f came in on
InitAnswered(log, f) ==
  /\ Len(log) = 1
  /\ log[1].frame.cid = f.cid
  /\ Bytes(log[1].frame.raw, 0, 3) = <<U2FHID_INIT, 0, 17>>
  /\ Bytes(log[1].frame.raw, 3, INIT_NONCE_SIZE) = Bytes(InitData(f), 0, INIT_NONCE_SIZE)

RECURSIVE FeedRest(_)
FeedRest(s) ==
  IF s.pending.cid = U32Zero THEN s
  ELSE FeedRest(
         u2fhid_process_frame(
           [s EXCEPT !.sent = <<>>, !.dispatched = NoDispatch],
           MkCont(s.pending.cid, s.pending.seqno,
                  Pattern(Fill(s.pending.cid) + s.pending.seqno + 1, 59)),
           NoEnv))

\* the remaining in-order CONT frames complete the pending message: it is
\* dispatched with its command and length, the bytes reassembled so far in
\* place and the new payloads after them
CompletesPending ==
  LET r == FeedRest(NextCallState)
      n == CeilDiv(pending.bcnt - 57, 59)
  IN /\ r.dispatched = [cid |-> pending.cid, cmd |-> pending.cmd,
                        bcnt |-> pending.bcnt, nframes |-> n]
     /\ \A k \in 1..(pending.seqno + 1) :
          Piece(r.rx_buffer, k) = Piece(rx_buffer, k)
     /\ \A q \in pending.seqno..(n - 1) :
          Piece(r.rx_buffer, q + 2) = Pattern(Fill(pending.cid) + q + 1, 59)

\* the call that just ended refused an INIT frame of another channel
\* while a transaction is pending
BusyAnswered ==
  /\ pc = "loop"
  /\ StartsMessage(frame)
  /\ pending.cid # U32Zero /\ frame.cid # pending.cid
  /\ SentError(sent, frame.cid, ERR_CHANNEL_BUSY)

\* C5: while a transaction is pending on channel A, an INIT frame other
\* than U2FHID_INIT on another channel B is answered with ERR_CHANNEL_BUSY
\* on B and changes neither the pending slot nor the bytes reassembled so
\* far, and A's remaining in-order CONT frames still complete and dispatch
\* A's message
C5_BusyKeepsPending ==
  /\ [][ (Call /\ StartsMessage(frame) /\ ValidChannel(frame.cid)
               /\ pending.cid # U32Zero /\ frame.cid # pending.cid) =>
           /\ SentError(sent', frame.cid, ERR_CHANNEL_BUSY)
           /\ pending' = pending
           /\ rx_buffer' = rx_buffer
           /\ lock_CID' = lock_CID
           /\ dispatched' = NoDispatch
       ]_vars
  /\ [](BusyAnswered => CompletesPending)

\* channel 2 was refused while channel 1 waits for its second CONT frame
C5_Witness ==
  /\ BusyAnswered
  /\ frame.cid = Chan(2) /\ pending.cid = Chan(1)
  /\ pending.bcnt = 117 /\ pending.seqno = 1

\* C6 as stated: whenever u2fhid_process_frame sends a transport error
\* frame, the pending slot is idle when it returns
C6_ErrorClears ==
  [][ (Call /\ SendsError(sent')) => pending'.cid = U32Zero ]_vars

\* C6, amended: when u2fhid_process_frame sends ERR_INVALID_SEQ,
\* ERR_INVALID_LEN or ERR_INVALID_CMD the pending slot is idle when it
\* returns; when it sends ERR_CHANNEL_BUSY or ERR_INVALID_CID the pending
\* slot is as it was before the call
C6_ErrorEffect ==
  [][ (Call /\ SendsError(sent')) =>
        /\ Len(sent') = 1
        /\ \/ /\ sent'[1].frame.raw[4] \in
                   {ERR_INVALID_SEQ, ERR_INVALID_LEN, ERR_INVALID_CMD}
              /\ pending' = IdlePending
           \/ /\ sent'[1].frame.raw[4] \in {ERR_CHANNEL_BUSY, ERR_INVALID_CID}
              /\ pending' = pending
    ]_vars

\* an error frame was sent and a transaction is still pending
C6_Witness ==
  /\ pc = "loop"
  /\ SendsErrno(sent, ERR_INVALID_CID)
  /\ pending.cid # U32Zero

\* every frame of the log was taken by the USB driver
AllTaken(log) == \A i \in 1..Len(log) : log[i].ok
\* byte j (from 1) of the payload that starts at offset off of an n-byte
\* body held in buf: the body byte, or zero past the end of the body
BodyByte(buf, n, off, j) == IF off + j - 1 < n THEN ByteAt(buf, off + j - 1) ELSE 0

\* the first n bytes of the buffers a and b are the same
SamePrefix(a, b, n) ==
  \A k \in 1..NumPieces : \A j \in 1..PieceSize(k) :
    PieceOff(k) + j - 1 < n => Piece(a, k)[j] = Piece(b, k)[j]

\* the log is the framing of the n-byte body in buf under command cmd on cid
FramesBody(log, cid, cmd, n, buf) ==
  /\ Len(log) = 1 + (IF n <= 57 THEN 0 ELSE CeilDiv(n - 57, 59))
  /\ \A i \in 1..Len(log) : log[i].frame.cid = cid
  /\ Bytes(log[1].frame.raw, 0, 3) = <<cmd, n \div 256, n % 256>>
  /\ cmd >= TYPE_INIT
  /\ \A j \in 1..57 : log[1].frame.raw[3 + j] = BodyByte(buf, n, 0, j)
  /\ \A i \in 2..Len(log) :
       /\ log[i].frame.raw[1] = i - 2
       /\ \A j \in 1..59 :
            log[i].frame.raw[1 + j] = BodyByte(buf, n, 57 + 59 * (i - 2), j)

\* C7: a response body of n <= 2358 bytes is sent as one INIT frame (command
\* byte with the INIT bit, n big-endian, the first min(n, 57) bytes, zero
\* padding) and exactly ceil((n - 57) / 59) CONT frames numbered 0, 1, 2, ...
\* on the request's channel, whose payloads concatenated and cut to n bytes
\* are the body; the body of a PING response is the request
C7_Framing ==
  [][ (Call /\ dispatched' # NoDispatch /\ ~SendsError(sent')
            /\ AllTaken(sent')) =>
        LET n == sent'[1].frame.raw[2] * 256 + sent'[1].frame.raw[3]
        IN /\ n <= MAX_BCNT
           /\ FramesBody(sent', dispatched'.cid, dispatched'.cmd + TYPE_INIT,
                         n, tx_buffer')
           /\ dispatched'.cmd = U2FHID_PING % 128 =>
                /\ n = dispatched'.bcnt
                /\ SamePrefix(tx_buffer', rx_buffer', n)
    ]_vars

\* a 2358-byte response went out in 40 frames
C7_Witness ==
  /\ pc = "loop"
  /\ dispatched.bcnt = MAX_BCNT
  /\ Len(sent) = 40 /\ AllTaken(sent)
  /\ sent[40].frame.raw[1] = 38

\* C8: when the USB driver rejects a frame of a response,
\* u2fhid_response_msg hands it no further frame of that response; the
\* pending slot is cleared whether or not the transmission succeeded
C8_StopsAtFailure ==
  [][ (Call /\ dispatched' # NoDispatch) =>
        /\ \A i \in 1..Len(sent') : ~sent'[i].ok => i = Len(sent')
        /\ pending' = IdlePending
    ]_vars

\* the channel id a U2FHID_INIT response grants: bytes 8..11 of its data,
\* least significant first
GrantedCid(x) ==
  U32(x.frame.raw[15] * 256 + x.frame.raw[14],
      x.frame.raw[13] * 256 + x.frame.raw[12])

\* the allocator after k allocations: counting up from 1, and counting up
\* from 0xFFFFFFFD through 0xFFFFFFFE to 1
FromOne(k) == U32(0, k + 1)
FromTop(k) == IF k <= 1 THEN U32(65535, 65533 + k) ELSE U32(0, k - 1)

\* C9: a channel id allocated for a broadcast U2FHID_INIT is the allocator's
\* value, lies in 1..0xFFFFFFFE, and the allocator then stands one higher,
\* or at 1 instead of 0xFFFFFFFF, so that the ids granted count up from 1
\* and pass from 0xFFFFFFFE to 1; a U2FHID_INIT on another channel returns
\* that channel and leaves the allocator alone
C9_Allocation ==
  /\ [][ /\ (Call /\ IsInitCmd(frame) /\ frame.cid = CID_BROADCAST) =>
             /\ Len(sent') = 1
             /\ GrantedCid(sent'[1]) = next_CID
             /\ ValidChannel(GrantedCid(sent'[1]))
             /\ next_CID' = IF next_CID = U32(65535, 65534) THEN U32(0, 1)
                            ELSE U32Inc(next_CID)
         /\ (Call /\ IsInitCmd(frame) /\ ValidChannel(frame.cid)) =>
             /\ Len(sent') = 1
             /\ GrantedCid(sent'[1]) = frame.cid
             /\ next_CID' = next_CID
       ]_vars
  /\ [](ValidChannel(next_CID) /\ next_CID \in {FromOne(allocs), FromTop(allocs)})

\* 0xFFFFFFFE was just granted and the allocator is back at 1
C9_Witness ==
  /\ pc = "loop"
  /\ IsInitCmd(frame) /\ frame.cid = CID_BROADCAST
  /\ GrantedCid(sent[1]) = U32(65535, 65534)
  /\ next_CID = U32(0, 1)

KatStep == pc = "init_fips" /\ kat <= NumKats /\ (pc' # pc \/ kat' # kat)
\* the bits the latch gained in the step
Thrown == fips_fatal' \ fips_fatal

RanIns(ins) ==
  /\ pc = "loop"
  /\ dispatched.cmd = U2FHID_MSG % 128
  /\ ByteAt(rx_buffer, 0) = 0
  /\ ByteAt(rx_buffer, 1) = ins

\* the response handed to the USB driver is the body followed by the status
\* word sw, in one INIT frame on the channel of the request
AnsweredIn(log, d, body, sw) ==
  /\ Len(log) = 1
  /\ log[1].frame.cid = d.cid
  /\ log[1].frame.raw =
       Pad(<<U2FHID_MSG, 0, Len(body) + 2>> \o body \o <<sw \div 256, sw % 256>>,
           3 + INIT_DATA_SIZE)
Answered(body, sw) == AnsweredIn(sent, dispatched, body, sw)

\* C12: when the latch is not FIPS_INITIALIZED at the end of a REGISTER or
\* AUTHENTICATE handler, whether it was so before the request or was tripped
\* during it, the response is the status word 0x6F06 alone
C12_LatchVoids ==
  (RanIns(U2F_REGISTER) \/ RanIns(U2F_AUTHENTICATE))
    /\ fips_fatal # FIPS_INITIALIZED
  => Answered(<<>>, U2F_SW_WTF + 6)

\* a REGISTER run tripped the latch after it had written its response, and
\* the host got 0x6F06
C12_Witness ==
  /\ RanIns(U2F_REGISTER)
  /\ fips_fatal = FIPS_INITIALIZED \cup FIPS_FATAL_TRNG
  /\ incrs = 1
  /\ ByteAt(tx_buffer, 2) = origin_pubkey(kl_random(Outcome(0, "trng", 9, 64, 200)))[1]
  /\ Answered(<<>>, U2F_SW_WTF + 6)

\* the call that ended ran apdu_rcv
RanMsg == pc = "loop" /\ dispatched.cmd = U2FHID_MSG % 128
\* the length apdu_rcv returned, as announced in the INIT frame of the response
RespLen == MSG_LEN(sent[1].frame)
\* the last two bytes of the response read high byte first
RespSw == ByteAt(tx_buffer, RespLen - 2) * 256 + ByteAt(tx_buffer, RespLen - 1)

StatusWords ==
  {U2F_SW_NO_ERROR, U2F_SW_CLA_NOT_SUPPORTED, U2F_SW_INS_NOT_SUPPORTED,
   U2F_SW_WRONG_LENGTH, U2F_SW_CONDITIONS_NOT_SATISFIED, U2F_SW_WRONG_DATA}
  \cup {U2F_SW_WTF + k : k \in 1..6}

\* the body length of a successful response to instruction ins
BodyLens(ins) ==
  CASE ins = U2F_VERSION      -> {Len(U2F_VERSION_STRING)}
    [] ins = U2F_REGISTER     -> {U2F_REGISTER_FIXED_LEN + h.varlen : h \in U2fOutcomes}
    [] ins = U2F_AUTHENTICATE -> {U2F_AUTHENTICATE_FIXED_LEN + h.varlen : h \in U2fOutcomes}
    [] OTHER -> {}

\* C13: apdu_rcv returns the body length plus 2 and the response ends with
\* the status word, high byte first; a class byte other than 0 is answered
\* with 0x6E00 and no body, an instruction of class 0 other than REGISTER,
\* AUTHENTICATE and VERSION with instruction-not-supported and no body
C13_StatusWord ==
  RanMsg =>
    /\ Len(sent) >= 1
    /\ RespLen >= SW_OFFSET
    /\ FramesBody(sent, dispatched.cid, U2FHID_MSG, RespLen, tx_buffer)
    /\ RespSw \in StatusWords
    /\ IF RespSw = U2F_SW_NO_ERROR
         THEN RespLen - SW_OFFSET \in BodyLens(ByteAt(rx_buffer, 1))
         ELSE RespLen = SW_OFFSET
    /\ ByteAt(rx_buffer, 0) # 0 => Answered(<<>>, U2F_SW_CLA_NOT_SUPPORTED)
    /\ ( /\ ByteAt(rx_buffer, 0) = 0
         /\ ByteAt(rx_buffer, 1) \notin {U2F_REGISTER, U2F_AUTHENTICATE, U2F_VERSION} )
       => Answered(<<>>, U2F_SW_INS_NOT_SUPPORTED)

\* a request of class 1 was answered with 0x6E00 after a VERSION request
\* had been answered with "U2F_V2" and 0x9000
C13_Witness ==
  /\ RanMsg
  /\ ByteAt(rx_buffer, 0) = 1
  /\ Answered(<<>>, U2F_SW_CLA_NOT_SUPPORTED)
  /\ Bytes(tx_buffer[1], 2, 4) = SubSeq(U2F_VERSION_STRING, 3, 6)

\* the request a call answered: a well-formed REGISTER or AUTHENTICATE of
\* class 0 with the bit flag set in P1
RanWithFlag(ins, len, flag) ==
  /\ RanIns(ins)
  /\ dispatched.bcnt = 5 + len
  /\ ByteAt(rx_buffer, 4) = len
  /\ Flag(ByteAt(rx_buffer, 2), flag) = 1

\* C14: a REGISTER request with TUP set that arrives while no touch is
\* latched is answered with conditions-not-satisfied and makes no key pair;
\* a latched touch is cleared only by a request with CONSUME set
C14_TouchRequired ==
  [][ /\ ( /\ Call
           /\ touch_latch = POP_TOUCH_NO
           /\ RanWithFlag(U2F_REGISTER, U2F_REGISTER_REQ_SIZE, G2F_TUP)' )
         => /\ Answered(<<>>, U2F_SW_CONDITIONS_NOT_SATISFIED)'
            /\ incrs' = incrs
            /\ tx_buffer' = MemCpy(tx_buffer, 0, <<105, 133>>, 2)
      /\ (touch_latch = POP_TOUCH_YES /\ touch_latch' = POP_TOUCH_NO)
         => /\ Call
            /\ Flag(ByteAt(rx_buffer', 2), G2F_CONSUME) = 1
    ]_vars

\* bytes off .. off+n-1 of the request in the receive buffer rx
ReqBytes(rx, off, n) == [i \in 1..n |-> ByteAt(rx, off + i - 1)]

\* rx holds a well-formed AUTHENTICATE request with P1 = p1 whose key handle
\* unwraps to the first 24 bytes of its application id; d is its dispatch
MatchingAuthenticate(rx, d) ==
  /\ d.cmd = U2FHID_MSG % 128
  /\ d.bcnt = 5 + U2F_AUTHENTICATE_REQ_SIZE
  /\ ReqBytes(rx, 0, 2) = <<0, U2F_AUTHENTICATE>>
  /\ ByteAt(rx, 4) = U2F_AUTHENTICATE_REQ_SIZE
  /\ equal_arrays(
       deinterleave64(obfuscate_kh(ReqBytes(rx, 5 + 65, KH_LEN),
                                   AES_DECRYPT_MODE)).a,
       ReqBytes(rx, 5 + 32, 32), 24)

U32Less(a, b) == a[1] < b[1] \/ (a[1] = b[1] /\ a[2] < b[2])

\* C16: the counter a successful AUTHENTICATE response reports is greater
\* than the counter of every successful AUTHENTICATE response before it,
\* whatever REGISTER and AUTHENTICATE requests the device has served
C16_CounterIncreases ==
  [][ ( /\ Call
        /\ reported # NoReport
        /\ AuthReport(sent', dispatched', rx_buffer') # NoReport )
      => U32Less(reported, AuthReport(sent', dispatched', rx_buffer'))
    ]_vars

\* C17: unwrapping the key handle REGISTER returned recovers the first 24
\* bytes of the application id and the origin seed, and AUTHENTICATE with
\* that handle and the registering application id succeeds and signs with
\* the key of that seed.
C17_KhRoundTrip ==
  /\ (res.fn = "u2f_register" /\ res.i = 0) =>
       /\ res.sw = U2F_SW_NO_ERROR
       /\ deinterleave64(obfuscate_kh(res.kh, AES_DECRYPT_MODE))
            = [a |-> [i \in 1..32 |-> IF i <= 24 THEN arg.appId[i] ELSE 0],
               b |-> kl_random(arg.h)]
  /\ (res.fn = "u2f_authenticate" /\ res.i = 0) =>
       /\ res.sw = U2F_SW_NO_ERROR
       /\ res.sig = OpaqueBody(kl_random(arg.h), KhAuthOutcome.varlen)

\* AUTHENTICATE succeeded with the unchanged handle of an application id
\* whose bytes wrap past 255, registered without attestation
C17_Witness ==
  /\ res.fn = "u2f_authenticate"
  /\ res.i = 0
  /\ res.sw = U2F_SW_NO_ERROR
  /\ arg.appId = Pattern(240, 32)
  /\ Flag(arg.p1, G2F_ATTEST) = 0
  /\ counter = U32(0, 2)

\* C18: AUTHENTICATE with a copy of the key handle REGISTER returned in
\* which one byte was changed is answered with the wrong-data status.
C18_ChangedHandleRefused ==
  (res.fn = "u2f_authenticate" /\ res.i > 0) => res.sw = U2F_SW_WRONG_DATA

\* C19 as stated: DRBG_generate fails for 938 bytes or more, and otherwise
\* fails exactly when 10,000 calls have succeeded since the last DRBG_init
\* or DRBG_reseed.
C19_TenThousand ==
  res.fn = "DRBG_generate" =>
    (res.rv # 0 <=> (arg.output_len >= 938 \/ res.before >= 10000))

\* C19: DRBG_generate fails for 938 bytes or more, and otherwise fails
\* exactly when 9,999 calls have succeeded since the last DRBG_init or
\* DRBG_reseed; as failed calls are not counted it keeps failing until the
\* context is seeded again.
C19_DrbgBounds ==
  res.fn = "DRBG_generate" =>
    (res.rv # 0 <=> (arg.output_len >= 938 \/ res.before >= 9999))

\* the first call that fails for the number of calls: 9,999 went before it
C19_Witness ==
  /\ res.fn = "DRBG_generate"
  /\ res.rv = 2
  /\ res.before = 9999
  /\ arg.output_len = 32

\* the number of bits equal to b that end, or start, the bit string
RunAtEnd(bits, b) ==
  LET S == {n \in 0..Len(bits) : \A j \in 1..n : bits[Len(bits) - j + 1] = b}
  IN CHOOSE n \in S : \A m \in S : m <= n
RunAtStart(bits, b) ==
  LET S == {n \in 0..Len(bits) : \A j \in 1..n : bits[j] = b}
  IN CHOOSE n \in S : \A m \in S : m <= n
\* the bit string holds n identical bits in a row
HasRun(bits, n) ==
  \E i \in 1..(Len(bits) - n + 1) : \A j \in i..(i + n - 1) : bits[j] = bits[i]
\* the run of bits b that crosses into the last word of the stream
RunInto(bits, b) ==
  RunAtEnd(SubSeq(bits, 1, Len(bits) - 32), b)
    + RunAtStart(SubSeq(bits, Len(bits) - 31, Len(bits)), b)

DerLength(p) ==
  IF p[1] < 128 THEN [len |-> p[1], used |-> 1]
  ELSE IF p[1] = 129 /\ Len(p) >= 2 THEN [len |-> p[2], used |-> 2]
  ELSE IF p[1] = 130 /\ Len(p) >= 3
    THEN [len |-> p[2] * 256 + p[3], used |-> 3]
  ELSE [len |-> -1, used |-> 0]

\* C21: for every size in 0..65535 asn1_len writes and returns 1 byte below
\* 128, the 2 bytes 0x81, size below 256 and the 3 bytes 0x82, high, low
\* from 256 on, and a DER decoder reads size back from all the bytes written.
C21_Asn1Len ==
  res.fn = "asn1_len" =>
    /\ Len(res.p) = res.rv
    /\ res.rv = (IF arg.size < 128 THEN 1 ELSE IF arg.size < 256 THEN 2 ELSE 3)
    /\ arg.size \in 128..255 => res.p = <<129, arg.size>>
    /\ arg.size >= 256 =>
         res.p = <<130, arg.size \div 256, arg.size % 256>>
    /\ DerLength(res.p) = [len |-> arg.size, used |-> res.rv]

\* the largest size was encoded in three bytes
C21_Witness ==
  /\ res.fn = "asn1_len"
  /\ arg.size = 65535
  /\ res.p = <<130, 255, 255>>

\* C23: fips_aes_init returns 0 and leaves the key of the engine alone when
\* its cipher mode is not ECB, CTR or CBC or its key length is not 128 or
\* 256 bits, and returns 1 otherwise, whatever calls went before.
C23_AesInitChecks ==
  res.fn = "fips_aes_init" =>
    IF /\ arg.c_mode \in {AES_CIPHER_MODE_ECB, AES_CIPHER_MODE_CTR,
                          AES_CIPHER_MODE_CBC}
       /\ arg.key_len \in {128, 256}
      THEN res.rv = 1
      ELSE res.rv = 0 /\ aes.key = res.before.key

\* block k (from 1) of the message, padded with 0x80 and zeros when short
Rfc4493Block(data, k) ==
  [j \in 1..16 |->
     IF 16 * (k - 1) + j <= Len(data) THEN data[16 * (k - 1) + j]
     ELSE IF 16 * (k - 1) + j = Len(data) + 1 THEN 128
     ELSE 0]
\* the number of blocks of a message: at least one
Rfc4493Blocks(data) == IF Len(data) = 0 THEN 1 ELSE (Len(data) + 15) \div 16
\* the accumulator after k blocks; the last block takes K1 when the message
\* fills it and K2 when it was padded
RECURSIVE Rfc4493Accu(_, _, _)
Rfc4493Accu(key, data, k) ==
  IF k = 0 THEN Zeros(16)
  ELSE LET x == XorBytes(Rfc4493Accu(key, data, k - 1), Rfc4493Block(data, k))
           L == aes_encrypt(key, Zeros(16))
       IN aes_encrypt(
            key,
            IF k < Rfc4493Blocks(data) THEN x
            ELSE IF Len(data) = 16 * k THEN XorBytes(x, _ls1(L))
            ELSE XorBytes(x, _ls1(_ls1(L))))
Rfc4493Tag(key, data) == Rfc4493Accu(key, data, Rfc4493Blocks(data))

\* C22: for every message length including 0 fips_cmac_generate succeeds
\* with the tag of the padding rule (short last block: 0x80, zeros and K2;
\* full last block: K1; the empty message is a short block), and
\* fips_cmac_verify accepts that tag and rejects it with one bit changed.
C22_CmacTag ==
  /\ res.fn = "fips_cmac_generate" =>
       res.rv = "EC_SUCCESS" /\ res.tag = Rfc4493Tag(arg.key, arg.data)
  /\ res.fn = "fips_cmac_verify" =>
       (res.rv = "EC_SUCCESS" <=> res.bit = 0)


\* C24: tock_dcrypto_run returns 0 only when the completion callback
\* reported no error, and a negative value for every failure: a rejected
\* subscribe, allow or command, or a program that ended with an error
C24_NegativeOnFailure ==
  res.fn = "tock_dcrypto_run" =>
    /\ (res.rv = Rv(0) => (Accepted(arg.k) /\ arg.k.error = 0))
    /\ (~(Accepted(arg.k) /\ arg.k.error = 0) => Negative(res.rv))


\* setup_personality found the stored record valid, or made a new one with
\* new_personality and every storage command reporting success
SetupSucceeded ==
  /\ arg.fn = "setup_personality"
  /\ \/ arg.found = "EC_SUCCESS"
     \/ /\ new_personality(arg.k.new).rv = "EC_SUCCESS"
        /\ arg.k.get.allow >= 0 /\ arg.k.get.command >= 0
        /\ tock_set_personality(personality, ZeroPerso, arg.k.set).rv = 0

\* C25: after setup_personality has returned with success, every record
\* get_personality returns passes check_personality: its chksum equals
\* kl_derive_attest(cert_hash)
C25_PersonalityValid ==
  (res.fn = "get_personality" /\ SetupSucceeded) =>
    check_personality(res.id, 0) = "EC_SUCCESS"


\* C26: a REGISTER request that ends with a non-success status word while
\* the FIPS latch stays INITIALIZED leaves unchanged the counter, the
\* user-presence latch, the personality record, the channel lock and the
\* pending slot
C26_FailedRegisterFrame ==
  (/\ res.fn = "u2f_register"
   /\ res.sw # U2F_SW_NO_ERROR
   /\ fips_fatal = FIPS_INITIALIZED) => Depended = res.before


\* C27: a pending transaction the host sends no further frame for is
\* eventually destroyed (by the message timeout), so that the other
\* channels can start a transaction
C27_PendingTimesOut == (pending.cid # U32Zero) ~> (pending.cid = U32Zero)


\* a CONT-type frame that belongs to no transaction: the pending slot is
\* idle or holds another channel
StrayCont(f) ==
  /\ FRAME_TYPE(f) = TYPE_CONT
  /\ (pending.cid = U32Zero \/ pending.cid # f.cid)

ExpectedContAnswered ==
  /\ pc = "loop"
  /\ StartsMessage(frame)
  /\ SentError(sent, frame.cid, ERR_INVALID_SEQ)

\* no CONT frame on channel c is taken as part of a message any more
NeverDispatched(c) ==
  \A f \in ContFramesOn({c}, {0, 1, 2}) :
    /\ u2fhid_process_frame(NextCallState, f, NoEnv).dispatched = NoDispatch
    /\ u2fhid_process_frame(NextCallState, f, NoEnv).pending = IdlePending

\* C29: while a transaction is pending on channel c, an INIT-type frame on
\* c other than U2FHID_INIT is answered with exactly one error frame on c
\* (ERR_INVALID_SEQ) and clears the pending slot; the message the frame
\* announces is not started, and the message reassembled so far is never
\* dispatched
C29_InitWhilePending ==
  /\ [][ (/\ Call
          /\ StartsMessage(frame)
          /\ pending.cid # U32Zero /\ frame.cid = pending.cid) =>
           /\ SentError(sent', frame.cid, ERR_INVALID_SEQ)
           /\ pending' = IdlePending
           /\ dispatched' = NoDispatch
           /\ rx_buffer' = rx_buffer
       ]_vars
  /\ [](ExpectedContAnswered => NeverDispatched(frame.cid))

\* channel 1 sent a new INIT frame while its 117-byte message waited for
\* its second CONT frame
C29_Witness ==
  /\ ExpectedContAnswered
  /\ frame.cid = Chan(1)
  /\ pending = IdlePending
  /\ Len(rx_buffer) = 2


\* the context holds no key material
Zeroized(ctx) == ctx.K = set_8words(0) /\ ctx.V = set_8words(0)

\* C30: every DRBG context seeded by make_drbg1 or make_drbg2 is zeroized
\* with DRBG_exit before the function that created it returns, on every
\* path
C30_ContextsZeroized ==
  res.fn \in {c.fn : c \in DrbgCalls} =>
    \A i \in 1..Len(res.left) :
      res.left[i].ctx.seeded => Zeroized(res.left[i].ctx)

\* the header length DER needs for a content of the given size
RealHeader(size) == IF size < 128 THEN 2 ELSE IF size < 256 THEN 3 ELSE 4

\* C31: when the header length reserved by SEQ_START (2, 3 or 4) is at least
\* the real header length of the content, after SEQ_END the tag, the DER
\* length and the unchanged content bytes are contiguous from the start of
\* the sequence, and the offset of the context is start + real header
\* length + content size.
C31_SeqEndCloses ==
  (res.fn = "asn1_seq" /\ arg.l >= RealHeader(arg.size)) =>
    LET h == RealHeader(arg.size)
    IN /\ res.p[arg.start + 1] = arg.tag
       /\ DerLength(SubSeq(res.p, arg.start + 2, arg.start + h))
            = [len |-> arg.size, used |-> h - 1]
       /\ SubSeq(res.p, arg.start + h + 1, arg.start + h + arg.size)
            = SeqContent(arg.seed, arg.size)
       /\ res.n = arg.start + h + arg.size

\* a 127-byte content written behind a 4-byte reservation was moved down by 2
C31_Witness ==
  /\ res.fn = "asn1_seq"
  /\ arg.l = SEQ_LARGE
  /\ arg.size = 127
  /\ arg.start = 5
  /\ res.n = 5 + 2 + 127
  /\ res.p[5 + 2 + 1] = SeqContent(arg.seed, 127)[1]

\* standard CBC over the first n blocks of a message
RECURSIVE CbcEncrypt(_, _, _, _)
CbcEncrypt(key, iv, msg, n) ==
  IF n = 0 THEN <<>>
  ELSE LET c == CbcEncrypt(key, iv, msg, n - 1)
       IN Append(c, aes_encrypt(key, XorBytes(msg[n],
                                      IF n = 1 THEN iv ELSE c[n - 1])))

CbcDecrypt(key, iv, msg, n) ==
  [k \in 1..n |->
     XorBytes(aes_decrypt(key, msg[k]), IF k = 1 THEN iv ELSE msg[k - 1])]

\* C32: in CBC mode the fips_aes_block calls after one fips_aes_init chain:
\* the blocks written so far are standard CBC encryption (decryption when
\* decrypting) of the blocks of the message read so far.
C32_CbcChains ==
  res.fn = "cbc" =>
    res.out = (IF arg.mode = AES_ENCRYPT_MODE
                 THEN CbcEncrypt(arg.key, arg.iv, arg.msg, Len(res.out))
                 ELSE CbcDecrypt(arg.key, arg.iv, arg.msg, Len(res.out)))

KlCall == res.fn \in {"kl_init", "kl_random", "kl_derive"}

\* C34: kl_step issues no digest command and returns TOCK_EBUSY whenever
\* the digest engine reports busy; in kl_init, kl_random and kl_derive no
\* step is made after a step that failed, so kl_derive never runs the HMAC
\* step (38) after a failed re-key step (35); and kl_random leaves the
\* output of its caller as it was when it fails.
C34_LadderStops ==
  KlCall =>
    /\ \A i \in 1..Len(res.log) :
         /\ res.log[i].busy = arg.ks[i].busy
         /\ res.log[i].busy =>
              ~res.log[i].issued /\ res.log[i].rv = TOCK_EBUSY
         /\ i < Len(res.log) => res.log[i].rv = Rv(0)
    /\ (res.rv # 0) <=> (\E i \in 1..Len(res.log) : res.log[i].rv # Rv(0))
    /\ res.fn = "kl_derive" =>
         (\A i \in 1..Len(res.log) :
            res.log[i].cert = 38 => i = 2 /\ res.log[1].rv = Rv(0))
    /\ (res.fn = "kl_random" /\ res.rv # 0) => res.output = arg.output

\* the re-key step of kl_derive met a busy engine and the HMAC step was
\* not made
C34_Witness ==
  /\ res.fn = "kl_derive"
  /\ Len(res.log) = 1
  /\ res.log[1].cert = 35
  /\ res.log[1].busy
  /\ res.rv = 1

\* C35: tock_nvcounter_increment returns success only after the
\* increment-done callback has fired, and then the variable of the caller
\* holds the counter the callback carried; counter_global is non-NULL only
\* between an accepted increment command and its callback; and a call whose
\* subscribe or command fails leaves the variable of the caller as it was.
C35_IncrementAtomic ==
  /\ (res.fn = "tock_nvcounter_increment" /\ res.returned /\ res.rv = Rv(0)) =>
       res.fired /\ nvcounter.val = ToUnsigned(res.carried)
  /\ nvcounter.counter_global # "NULL" =>
       /\ callbacks.waiting = "nvcounter"
       /\ arg.k.command >= 0
       /\ callbacks.drv["nvcounter"].busy
            \/ callbacks.drv["nvcounter"].queued # "none"
  /\ (res.fn = "tock_nvcounter_increment" /\ res.returned /\ res.rv # Rv(0)) =>
       nvcounter.val = arg.before

\* the second increment returned success with the counter 2 in val
C35_Witness ==
  /\ res.fn = "tock_nvcounter_increment"
  /\ res.returned
  /\ res.rv = Rv(0)
  /\ res.carried = 2
  /\ nvcounter.val = U32(0, 2)
  /\ nvcounter.counter_global = "NULL"

\* C36: a pending slot that is not idle has 57 < bcnt <= 2358, a channel
\* that is neither 0 nor the broadcast channel, and 57 + 59 * seqno < bcnt,
\* so the 59 bytes the next consume_frame copies end at or before byte 2358
\* of the reassembly buffer.
C36_PendingInBounds ==
  pending.cid # U32Zero =>
    /\ 57 < pending.bcnt
    /\ pending.bcnt <= 2358
    /\ pending.cid # CID_BROADCAST
    /\ 57 + 59 * pending.seqno < pending.bcnt
    /\ 57 + 59 * (pending.seqno + 1) <= 2358

\* 38 continuation frames of a 2358-byte request have been copied: the next
\* copy ends at byte 2358
C36_Witness ==
  /\ pending.cid = Chan(1)
  /\ pending.bcnt = MAX_BCNT
  /\ pending.seqno = 38

\* C37: no completion callback is delivered with an argument that points
\* to the completion flag of a binding call that has returned; the set-done
\* callback of tock_set_personality does not fire after
\* tock_set_personality has returned.
C37_NoStaleCallback == callbacks.fired.args # "dead"

\* C38: AUTHENTICATE returns the wrong-data status whenever the application
\* id of the request differs in a byte from the application id the key
\* handle presented was registered for.
C38_OriginBound ==
  (res.fn = "u2f_authenticate" /\ "j" \in DOMAIN res) =>
    res.sw = U2F_SW_WRONG_DATA


\* the status word of the response to the MSG that was dispatched
MsgSw ==
  ByteAt(tx_buffer, MSG_LEN(sent[1].frame) - 2) * 256
    + ByteAt(tx_buffer, MSG_LEN(sent[1].frame) - 1)

\* the MSG that was dispatched is a REGISTER or AUTHENTICATE whose declared
\* payload ends after the bytes received for it
DeclaresMore ==
  /\ pc = "loop"
  /\ dispatched.cmd = U2FHID_MSG % 128
  /\ Len(sent) >= 1
  /\ ByteAt(rx_buffer, 0) = 0
  /\ ByteAt(rx_buffer, 1) \in {U2F_REGISTER, U2F_AUTHENTICATE}
  /\ apdu_data(rx_buffer, dispatched.bcnt)
       + apdu_len(rx_buffer, dispatched.bcnt) > dispatched.bcnt

\* C39: a REGISTER or AUTHENTICATE message whose declared APDU length ends
\* after the in_len bytes received for it is not answered with success:
\* no handler completes on bytes that earlier messages left in rx_buffer.
C39_DeclaredWithinReceived == DeclaresMore => MsgSw # U2F_SW_NO_ERROR


\* C40: tock_h1b_kl_set_input and tock_h1b_kl_set_output answer TOCK_SUCCESS
\* for a buffer only when the driver holds that buffer by an allow it
\* accepted; a call that repeats a pointer whose allow was refused does not
\* answer success on the strength of the remembered pointer.
C40_SuccessMeansHeld ==
  /\ (res.fn = "tock_h1b_kl_set_input" /\ res.rv = Rv(0))
       => h1b_kl.held_input = arg.buf
  /\ (res.fn = "tock_h1b_kl_set_output" /\ res.rv = Rv(0))
       => h1b_kl.held_output = arg.buf

====
